---- MODULE Spec2Model ----
(***************************************************************************)
(* Model of liblorago: the receive pipeline (Lgw_receive), the SX125x      *)
(* synthesizer setup (Lgw_setup_sx125x), the firmware loader               *)
(* (Load_firmware) and the startup sequence (Lgw_start, which calls the    *)
(* two).  The register transport (Lgw_reg_w, Lgw_reg_r, Lgw_reg_rb,        *)
(* Lgw_reg_wb) is the environment: every call either fails or succeeds,    *)
(* and what a read returns is chosen by the hardware.                      *)
(* Floating point fields of a packet (Rssi) are not modelled; the SNR      *)
(* fields are kept in quarter-dB units (the signed trailer byte).          *)
(***************************************************************************)
EXTENDS Integers, Sequences, FiniteSets, TLC

VARIABLES
    \* ---- Lgw_receive
    s,            \* the *State the caller passes
    fifo,         \* hardware RX packet FIFO: what the concentrator holds
    rx_pc,        \* position of the call: idle, hdr, burst, adv, done
    nb_pkt_fetch, \* loop variable of Lgw_receive
    pkt_data,     \* the slice made at the start of the call
    rx_sz,        \* sz of the current iteration
    stat_fifo,    \* stat_fifo of the current iteration
    rx_corr,      \* timestamp_correction of each iteration that decoded a packet
    rx_ops,       \* register accesses of the call, in order
    rx_faults,    \* transport failures the environment may still inject
    rx_ret,       \* what the call returned
    \* ---- Lgw_setup_sx125x
    pll_in,       \* arguments of the call
    pll_pc,       \* position of the call
    pll_idx,      \* index into the fixed gain writes / the PLL bytes
    cpt_attempts, \* loop variable of the PLL lock loop
    pll_ops,      \* Sx125x_write / Sx125x_read calls made, in order
    pll_lock,     \* lock bit of each completed status read of 0x11
    pll_ret,      \* what the call returned
    \* ---- Load_firmware
    fw_in,        \* arguments of the call
    fw_pc,        \* position of the call
    fw_ops,       \* register accesses of the call, in order
    fw_check,     \* the verifying read-back
    fw_ret,       \* what the call returned
    \* ---- one packet decoded on its own (wide inputs)
    dec_in,       \* header, buffer and state of one FIFO entry
    dec_out,      \* what decoding it gives
    \* ---- Lgw_start
    start_in,     \* the *State the caller passes, what Lgw_connect finds, and
                  \* the steps Lgw_start goes through for that State
    start_pc,     \* position of the call: idle, run, setup, fw, done
    start_idx,    \* the step of Lgw_start the call is at
    start_cal,    \* cal_offset_a_i, _a_q, _b_i, _b_q written into the State
    start_ops,    \* transport calls and nested calls of Lgw_start, in order
    start_ret,    \* what the call returned
    \* ---- two calls of Lgw_receive on one concentrator
    par_sent,     \* the packets the concentrator received, numbered from 1
    par_fifo,     \* hardware RX packet FIFO: the packets not yet advanced over
    par_call,     \* of each caller: position, nb_pkt_fetch, the packet whose
                  \* header it read, pkt_data, and the error returned
    par_log,      \* register accesses of both calls, in the order of the bus
    par_faults    \* transport failures the environment may still inject

rxVars == <<s, fifo, rx_pc, nb_pkt_fetch, pkt_data, rx_sz, stat_fifo, rx_corr,
            rx_ops, rx_faults, rx_ret>>
pllVars == <<pll_in, pll_pc, pll_idx, cpt_attempts, pll_ops, pll_lock, pll_ret>>
fwVars == <<fw_in, fw_pc, fw_ops, fw_check, fw_ret>>
decVars == <<dec_in, dec_out>>
startVars == <<start_in, start_pc, start_idx, start_cal, start_ops, start_ret>>
parVars == <<par_sent, par_fifo, par_call, par_log, par_faults>>
vars == <<rxVars, pllVars, fwVars, decVars, startVars, parVars>>

(***************************************************************************)
(* Program constants                                                       *)
(***************************************************************************)
LGW_PKT_FIFO_SIZE == 16
LGW_IF_CHAIN_NB == 10
LGW_RF_CHAIN_NB == 2
RX_METADATA_NB == 16
RX_MAX_PKT == 16

IF_UNDEFINED == 0
IF_LORA_STD == 16
IF_LORA_MULTI == 17
IF_FSK_STD == 32

MOD_UNDEFINED == 0
MOD_LORA == 16
MOD_FSK == 32

BW_UNDEFINED == 0
BW_500KHZ == 1
BW_250KHZ == 2
BW_125KHZ == 3
BW_62K5HZ == 4

DR_UNDEFINED == 0
DR_LORA_SF7 == 2
DR_LORA_SF8 == 4
DR_LORA_SF9 == 8
DR_LORA_SF10 == 16
DR_LORA_SF11 == 32
DR_LORA_SF12 == 64

CR_UNDEFINED == 0
CR_LORA_4_5 == 1
CR_LORA_4_6 == 2
CR_LORA_4_7 == 3
CR_LORA_4_8 == 4

STAT_UNDEFINED == 0
STAT_NO_CRC == 1
STAT_CRC_BAD == 17
STAT_CRC_OK == 16

LGW_IFMODEM_CONFIG ==
    <<IF_LORA_MULTI, IF_LORA_MULTI, IF_LORA_MULTI, IF_LORA_MULTI,
      IF_LORA_MULTI, IF_LORA_MULTI, IF_LORA_MULTI, IF_LORA_MULTI,
      IF_LORA_STD, IF_FSK_STD>>

(***************************************************************************)
(* Bounds of the model                                                     *)
(***************************************************************************)
MaxFifo == 17      \* packets the FIFO can deliver during one call
MaxSeed == 0       \* rotations of the packet kinds over the FIFO positions
MaxFaults == 1     \* transport failures injected in one call

(***************************************************************************)
(* Go integer arithmetic                                                   *)
(***************************************************************************)
U8(x) == x % 256
U16(x) == x % 65536
I8(x) == IF U8(x) >= 128 THEN U8(x) - 256 ELSE U8(x)
\* x << n on a byte: bits shifted out are lost
Shl8(x, n) == IF n >= 8 THEN 0 ELSE U8(x * (2 ^ n))
\* A 32 bit word is a pair <<high 16 bits, low 16 bits>>: TLC's integers
\* are 32 bit signed and cannot hold a uint32.
W32(x) == <<(x \div 65536) % 65536, x % 65536>>   \* two's complement of an int
W32Add(a, b) ==
    <<(a[1] + b[1] + ((a[2] + b[2]) \div 65536)) % 65536, (a[2] + b[2]) % 65536>>
RECURSIVE W32Shl(_, _)
\* x << n on a uint32
W32Shl(a, n) ==
    IF n = 0 THEN a ELSE W32Shl(W32Add(a, a), n - 1)
\* Go's / and % on int truncate toward zero
GoDiv(a, b) ==
    IF (a >= 0) = (b >= 0)
    THEN (IF a >= 0 THEN a ELSE -a) \div (IF b >= 0 THEN b ELSE -b)
    ELSE -((IF a >= 0 THEN a ELSE -a) \div (IF b >= 0 THEN b ELSE -b))
GoMod(a, b) == a - b * GoDiv(a, b)
Min(a, b) == IF a <= b THEN a ELSE b

\* buff[i] of a Go slice (0-based)
At(buff, i) == buff[i + 1]

SET_PPM_ON(bw, dr) ==
    \/ (bw = BW_125KHZ /\ (dr = DR_LORA_SF11 \/ dr = DR_LORA_SF12))
    \/ (bw = BW_250KHZ /\ dr = DR_LORA_SF12)

(***************************************************************************)
(* Lgw_receive: decoding of one FIFO entry                                 *)
(***************************************************************************)
\* a zero-valued Lgw_pkt_rx_s, as make([]Lgw_pkt_rx_s, 16) holds
ZeroPkt ==
    [Freq_hz |-> <<0, 0>>, If_chain |-> 0, Status |-> 0, Count_us |-> <<0, 0>>,
     Rf_chain |-> 0, Modulation |-> 0, Bandwidth |-> 0, Datarate |-> 0,
     Coderate |-> 0, Snr |-> 0, Snr_min |-> 0, Snr_max |-> 0,
     Crc |-> 0, Size |-> 0, Payload |-> <<>>]

\* a Status taken from the whole CRC status byte
StatusOfWholeByte(stat) ==
    CASE stat = 5 -> STAT_CRC_OK
      [] stat = 7 -> STAT_CRC_BAD
      [] stat = 1 -> STAT_NO_CRC
      [] OTHER -> STAT_UNDEFINED

\* switch stat_fifo & 0x07: the Status of the packet
StatusOf(stat) ==
    CASE stat % 8 = 5 -> STAT_CRC_OK
      [] stat % 8 = 7 -> STAT_CRC_BAD
      [] stat % 8 = 1 -> STAT_NO_CRC
      [] OTHER -> STAT_UNDEFINED

\* switch stat_fifo & 0x07: crc_en of a LoRa packet
CrcEnOf(stat) == IF stat % 8 = 5 \/ stat % 8 = 7 THEN 1 ELSE 0

\* sf := (buff[sz+1] >> 4) & 0x0F
SfOf(b) == (b \div 16) % 16

\* cr := (buff[sz+1] >> 1) & 0x07
CrOf(b) == (b \div 2) % 8

DatarateOf(sf) ==
    CASE sf = 7 -> DR_LORA_SF7
      [] sf = 8 -> DR_LORA_SF8
      [] sf = 9 -> DR_LORA_SF9
      [] sf = 10 -> DR_LORA_SF10
      [] sf = 11 -> DR_LORA_SF11
      [] sf = 12 -> DR_LORA_SF12
      [] OTHER -> DR_UNDEFINED

CoderateOf(cr) ==
    CASE cr = 1 -> CR_LORA_4_5
      [] cr = 2 -> CR_LORA_4_6
      [] cr = 3 -> CR_LORA_4_7
      [] cr = 4 -> CR_LORA_4_8
      [] OTHER -> CR_UNDEFINED

\* base delay of the timestamp correction; 0 stands for the switch's default,
\* where the call returns an error
DelayX(ifmod, lora_rx_bw) ==
    IF ifmod = IF_LORA_STD
    THEN CASE lora_rx_bw = BW_125KHZ -> 64
           [] lora_rx_bw = BW_250KHZ -> 32
           [] lora_rx_bw = BW_500KHZ -> 16
           [] OTHER -> 0
    ELSE 114

BwPow(ifmod, lora_rx_bw) ==
    IF ifmod = IF_LORA_STD
    THEN CASE lora_rx_bw = BW_125KHZ -> 1
           [] lora_rx_bw = BW_250KHZ -> 2
           [] lora_rx_bw = BW_500KHZ -> 4
           [] OTHER -> 0
    ELSE 1

\* (2*(int(sz)+2*crc_en) - (int(sf) - 7)) <= 0
FitsFirst8(sf, sz, crc_en) == (2 * (sz + 2 * crc_en) - (sf - 7)) <= 0

\* delay_y: sf and ppm are bytes, so the untyped constants take the type byte
\* and the whole expression is evaluated in uint8
DelayY(sf, ppm, fits, bw_pow) ==
    U8(U8(Shl8(1, U8(sf - 1)) * U8(sf + 1))
       + U8((IF fits THEN 3 ELSE U8(4 - ppm)) * Shl8(1, U8(sf - 4))))
      \div U8(bw_pow)

\* delay_z: evaluated in int
DelayZ(sf, cr, sz, crc_en, ppm, fits, bw_pow) ==
    IF fits
    THEN GoDiv(32 * (2 * (sz + 2 * crc_en) + 5), bw_pow)
    ELSE GoDiv((16 + 4 * cr)
                 * (GoMod(2 * (sz + 2 * crc_en) - sf + 6, sf - 2 * ppm) + 1),
               bw_pow)

\* a correction whose range test on sf is off by one at both ends
LoraCorrectionWideRange(sf, cr, sz, crc_en, ppm, delay_x, bw_pow) ==
    IF sf >= 5 /\ sf <= 13 /\ bw_pow > 0
    THEN delay_x + DelayY(sf, ppm, FitsFirst8(sf, sz, crc_en), bw_pow)
                 + DelayZ(sf, cr, sz, crc_en, ppm, FitsFirst8(sf, sz, crc_en), bw_pow)
    ELSE 0

\* timestamp_correction of a LoRa packet (it is declared 0)
LoraCorrection(sf, cr, sz, crc_en, ppm, delay_x, bw_pow) ==
    IF sf >= 6 /\ sf <= 12 /\ bw_pow > 0
    THEN delay_x + DelayY(sf, ppm, FitsFirst8(sf, sz, crc_en), bw_pow)
                 + DelayZ(sf, cr, sz, crc_en, ppm, FitsFirst8(sf, sz, crc_en), bw_pow)
    ELSE 0

\* a correction whose quotient 13.6 is rounded to the nearest integer
FskCorrectionRounded == 14 - 20

\* timestamp_correction of an FSK packet: (680000 / 50000) - 20
FskCorrection == GoDiv(680000, 50000) - 20

\* raw_timestamp: trailer bytes 6..9
RawTimestamp(buff, sz) ==
    W32Add(W32Add(W32(At(buff, sz + 6)), W32Shl(W32(At(buff, sz + 7)), 8)),
           W32Add(W32Shl(W32(At(buff, sz + 8)), 16),
                  W32Shl(W32(At(buff, sz + 9)), 24)))

\* a Count_us that stops at 0 instead of wrapping around
CountUsSaturating(raw, corr) ==
    IF raw[1] = 0 /\ raw[2] < corr THEN <<0, 0>> ELSE W32Add(raw, W32(-corr))

\* Count_us = uint32(int(raw_timestamp) - timestamp_correction)
CountUs(raw, corr) == W32Add(raw, W32(-corr))

\* Freq_hz = uint32(int32(rf_rx_freq[Rf_chain]) + if_freq[If_chain])
FreqHz(rf_freq, if_freq) == W32Add(rf_freq, W32(if_freq))

\* the modulation dependent fields and the correction
ModemFields(ifmod, st, stat, b1, b2, b3, b4, sz) ==
    IF ifmod = IF_LORA_MULTI \/ ifmod = IF_LORA_STD
    THEN LET bw == IF ifmod = IF_LORA_MULTI THEN BW_125KHZ ELSE st.lora_rx_bw
             sf == SfOf(b1)
             cr == CrOf(b1)
             dr == DatarateOf(sf)
             ppm == IF SET_PPM_ON(bw, U8(dr)) THEN 1 ELSE 0
         IN  [Status |-> StatusOf(stat), Modulation |-> MOD_LORA,
              Snr |-> I8(b2), Snr_min |-> I8(b3), Snr_max |-> I8(b4),
              Bandwidth |-> bw, Datarate |-> dr, Coderate |-> CoderateOf(cr),
              bwok |-> BwPow(ifmod, st.lora_rx_bw) > 0,
              corr |-> LoraCorrection(sf, cr, sz, CrcEnOf(stat), ppm,
                                      DelayX(ifmod, st.lora_rx_bw),
                                      BwPow(ifmod, st.lora_rx_bw))]
    ELSE IF ifmod = IF_FSK_STD
    THEN [Status |-> StatusOf(stat), Modulation |-> MOD_FSK,
          Snr |-> -512, Snr_min |-> -512, Snr_max |-> -512,
          Bandwidth |-> BW_125KHZ, Datarate |-> 50000, Coderate |-> CR_UNDEFINED,
          bwok |-> TRUE, corr |-> FskCorrection]
    ELSE [Status |-> STAT_UNDEFINED, Modulation |-> MOD_UNDEFINED,
          Snr |-> -512, Snr_min |-> -512, Snr_max |-> -512,
          Bandwidth |-> BW_UNDEFINED, Datarate |-> DR_UNDEFINED,
          Coderate |-> CR_UNDEFINED, bwok |-> TRUE, corr |-> 0]

\* the decoding of an entry whose IF chain is valid, up to Crc: kind is ok, or
\* the error returned (bw), or panic (index out of range of rf_rx_freq)
DecodeValid(sz, stat, buff, st) ==
    LET ifc == At(buff, sz + 0)
    IN  IF st.if_rf_chain[ifc + 1] >= LGW_RF_CHAIN_NB
        THEN [kind |-> "panic", pkt |-> ZeroPkt, corr |-> 0]
        ELSE LET rfc == st.if_rf_chain[ifc + 1]
                 m == ModemFields(LGW_IFMODEM_CONFIG[ifc + 1], st, stat,
                                  At(buff, sz + 1), At(buff, sz + 2),
                                  At(buff, sz + 3), At(buff, sz + 4), sz)
             IN  IF ~m.bwok
                 THEN [kind |-> "bw", pkt |-> ZeroPkt, corr |-> 0]
                 ELSE [kind |-> "ok", corr |-> m.corr,
                       pkt |-> [Freq_hz |-> FreqHz(st.rf_rx_freq[rfc + 1],
                                                   st.if_freq[ifc + 1]),
                                If_chain |-> ifc, Status |-> m.Status,
                                Count_us |-> CountUs(RawTimestamp(buff, sz), m.corr),
                                Rf_chain |-> rfc, Modulation |-> m.Modulation,
                                Bandwidth |-> m.Bandwidth, Datarate |-> m.Datarate,
                                Coderate |-> m.Coderate, Snr |-> m.Snr,
                                Snr_min |-> m.Snr_min, Snr_max |-> m.Snr_max,
                                Crc |-> U16(At(buff, sz + 10)
                                            + U16(At(buff, sz + 11) * 256)),
                                Size |-> sz, Payload |-> SubSeq(buff, 1, sz)]]

\* a decoding that indexes ifmod_config with the IF chain before testing it:
\* an index of 10 or more is a run-time panic
DecodePacketIndexFirst(sz, stat, buff, st) ==
    IF At(buff, sz + 0) >= LGW_IF_CHAIN_NB
    THEN [kind |-> "panic", pkt |-> ZeroPkt, corr |-> 0]
    ELSE DecodeValid(sz, stat, buff, st)

\* one iteration's decoding, from the burst read to Crc: the IF chain is
\* tested before it indexes ifmod_config and the state (error ifchain)
DecodePacket(sz, stat, buff, st) ==
    IF At(buff, sz + 0) >= LGW_IF_CHAIN_NB
    THEN [kind |-> "ifchain", pkt |-> ZeroPkt, corr |-> 0]
    ELSE DecodeValid(sz, stat, buff, st)

(***************************************************************************)
(* The hardware side of Lgw_receive: the packet FIFO                       *)
(***************************************************************************)
\* the 16 byte metadata trailer that follows the payload
MkTrailer(ifc, b1, raw, crc) ==
    <<ifc, b1, 40, 252, 44, 100,
      raw[2] % 256, raw[2] \div 256, raw[1] % 256, raw[1] \div 256,
      crc % 256, (crc \div 256) % 256, 0, 0, 0, 0>>

\* payload followed by trailer, as the data buffer holds a packet
MkBuff(sz, ifc, b1, raw, crc) ==
    [i \in 1..sz |-> U8(37 * i + ifc)] \o MkTrailer(ifc, b1, raw, crc)

\* packets a FIFO position can hold: IF chain, SF/CR byte, CRC status,
\* payload size, raw timestamp
PktKinds ==
    << [ifc |-> 0, b1 |-> 114, stat |-> 5, sz |-> 10, raw |-> W32(1000000)],
       [ifc |-> 3, b1 |-> 200, stat |-> 7, sz |-> 0, raw |-> W32(5)],
       [ifc |-> 8, b1 |-> 148, stat |-> 1, sz |-> 3, raw |-> <<65535, 65535>>],
       [ifc |-> 9, b1 |-> 0, stat |-> 5, sz |-> 2, raw |-> <<65535, 65530>>],
       [ifc |-> 7, b1 |-> 80, stat |-> 0, sz |-> 1, raw |-> W32(3)],
       [ifc |-> 2, b1 |-> 118, stat |-> 13, sz |-> 0, raw |-> W32(20)] >>

KindAt(seed, k) == PktKinds[((seed + k - 1) % Len(PktKinds)) + 1]

\* entry k of a FIFO of n packets; the last one may be corrupt: a packet
\* count above the FIFO depth, or an IF chain that does not exist
FifoEntry(n, seed, bad, k) ==
    LET kd == KindAt(seed, k)
        ifc == IF k = n /\ bad = "ifchain" THEN 10 + kd.ifc ELSE kd.ifc
    IN  [cnt |-> IF k = n /\ bad = "count" THEN 17 + kd.ifc ELSE 0,
         stat |-> kd.stat, sz |-> kd.sz,
         buff |-> MkBuff(kd.sz, ifc, kd.b1, kd.raw, 4660 + k)]

FifoOf(n, seed, bad) == [k \in 1..n |-> FifoEntry(n, seed, bad, k)]

\* the 5 bytes read at RX_PACKET_DATA_FIFO_NUM_STORED: number of packets
\* stored, start address (2 bytes), CRC status, payload size
HeaderOf(f) ==
    IF f = <<>>
    THEN <<0, 0, 0, 0, 0>>
    ELSE <<IF f[1].cnt > 0 THEN f[1].cnt ELSE Min(Len(f), LGW_PKT_FIFO_SIZE),
           0, 0, f[1].stat, f[1].sz>>

\* states a caller passes: a European channel plan; one whose standalone
\* bandwidth ParseConfig left unset; one whose channel 1 names a radio that
\* does not exist, and one whose channel 3 does
StateConfigs ==
    { [if_rf_chain |-> <<1, 1, 1, 0, 0, 0, 0, 0, 1, 1>>,
       rf_rx_freq |-> <<W32(867500000), W32(868500000)>>,
       if_freq |-> <<-400000, -200000, 0, -400000, -200000, 0, 200000, 400000,
                     -200000, 300000>>,
       lora_rx_bw |-> BW_250KHZ],
      [if_rf_chain |-> <<0, 0, 0, 0, 1, 1, 1, 1, 0, 0>>,
       rf_rx_freq |-> <<<<65535, 65535>>, W32(100000)>>,
       if_freq |-> <<400000, -200000, 0, -400000, -200000, 0, 200000, 400000,
                     -200000, 300000>>,
       lora_rx_bw |-> BW_UNDEFINED],
      [if_rf_chain |-> <<0, 2, 0, 0, 1, 1, 1, 1, 0, 0>>,
       rf_rx_freq |-> <<W32(867500000), W32(868500000)>>,
       if_freq |-> <<-400000, -200000, 0, -400000, -200000, 0, 200000, 400000,
                     -200000, 300000>>,
       lora_rx_bw |-> BW_125KHZ],
      [if_rf_chain |-> <<0, 0, 0, 2, 1, 1, 1, 1, 0, 0>>,
       rf_rx_freq |-> <<W32(867500000), W32(868500000)>>,
       if_freq |-> <<-400000, -200000, 0, -400000, -200000, 0, 200000, 400000,
                     -200000, 300000>>,
       lora_rx_bw |-> BW_500KHZ] }

(***************************************************************************)
(* Lgw_receive                                                             *)
(***************************************************************************)
RxPending == [list |-> <<>>, isnil |-> TRUE, err |-> "pending"]
\* an error return that hands out the packets decoded so far
RxErrorPartial(e) ==
    [list |-> SubSeq(pkt_data, 1, nb_pkt_fetch), isnil |-> FALSE, err |-> e]
\* return nil, err
RxError(e) == [list |-> <<>>, isnil |-> TRUE, err |-> e]
RxOk(l) == [list |-> l, isnil |-> FALSE, err |-> "none"]

RxOp(op, reg, arg, ok, data) ==
    [op |-> op, reg |-> reg, arg |-> arg, ok |-> ok, data |-> data]

InitRx ==
    /\ s \in StateConfigs
    /\ \E n \in 0..MaxFifo, seed \in 0..MaxSeed, bad \in {"none", "count", "ifchain"} :
          fifo = FifoOf(n, seed, bad)
    /\ rx_pc = "idle"
    /\ nb_pkt_fetch = 0
    /\ pkt_data = <<>>
    /\ rx_sz = 0
    /\ stat_fifo = 0
    /\ rx_corr = <<>>
    /\ rx_ops = <<>>
    /\ rx_faults = MaxFaults
    /\ rx_ret = RxPending

\* pkt_data := make([]Lgw_pkt_rx_s, 16)
Lgw_receive_call ==
    /\ rx_pc = "idle"
    /\ rx_pc' = "hdr"
    /\ pkt_data' = [i \in 1..RX_MAX_PKT |-> ZeroPkt]
    /\ nb_pkt_fetch' = 0
    /\ UNCHANGED <<s, fifo, rx_sz, stat_fifo, rx_corr, rx_ops, rx_faults, rx_ret>>
    /\ UNCHANGED <<pllVars, fwVars, decVars, startVars, parVars>>

\* a sanity check that lets a count of 17 through
CountInvalidAbove17(cnt) == cnt > LGW_PKT_FIFO_SIZE + 1

\* sanity check: buff[0] > LGW_PKT_FIFO_SIZE
CountInvalid(cnt) == cnt > LGW_PKT_FIFO_SIZE

\* what the loop does once the 5 byte header was read
AfterHeader(buff) ==
    IF buff[1] = 0
    THEN /\ rx_pc' = "done"
         /\ rx_ret' = RxOk(pkt_data)
         /\ UNCHANGED <<pkt_data, rx_sz, stat_fifo>>
    ELSE IF CountInvalid(buff[1])
    THEN /\ rx_pc' = "done"
         /\ rx_ret' = RxError("fifo")
         /\ UNCHANGED <<pkt_data, rx_sz, stat_fifo>>
    ELSE /\ rx_pc' = "burst"
         /\ pkt_data' = [pkt_data EXCEPT ![nb_pkt_fetch + 1].Size = buff[5]]
         /\ rx_sz' = buff[5]
         /\ stat_fifo' = buff[4]
         /\ UNCHANGED rx_ret

\* Lgw_reg_rb(LGW_RX_PACKET_DATA_FIFO_NUM_STORED, 5) and the checks on it
Lgw_receive_header ==
    /\ rx_pc = "hdr"
    /\ \E ok \in BOOLEAN :
          /\ ok \/ rx_faults > 0
          /\ rx_faults' = IF ok THEN rx_faults ELSE rx_faults - 1
          /\ rx_ops' = Append(rx_ops,
                 RxOp("rb", "RX_PACKET_DATA_FIFO_NUM_STORED", 5, ok,
                      IF ok THEN HeaderOf(fifo) ELSE <<>>))
          /\ IF ok
             THEN AfterHeader(HeaderOf(fifo))
             ELSE /\ rx_pc' = "done"
                  /\ rx_ret' = RxError("transport")
                  /\ UNCHANGED <<pkt_data, rx_sz, stat_fifo>>
    /\ UNCHANGED <<s, fifo, nb_pkt_fetch, rx_corr>>
    /\ UNCHANGED <<pllVars, fwVars, decVars, startVars, parVars>>

\* what the loop does with the payload and metadata read
AfterBurst(d) ==
    IF d.kind = "ok"
    THEN /\ rx_pc' = "adv"
         /\ pkt_data' = [pkt_data EXCEPT ![nb_pkt_fetch + 1] = d.pkt]
         /\ rx_corr' = Append(rx_corr, d.corr)
         /\ UNCHANGED rx_ret
    ELSE /\ rx_pc' = "done"
         /\ rx_ret' = RxError(d.kind)
         /\ UNCHANGED <<pkt_data, rx_corr>>

\* Lgw_reg_rb(LGW_RX_DATA_BUF_DATA, sz+RX_METADATA_NB) and the decoding
Lgw_receive_burst ==
    /\ rx_pc = "burst"
    /\ \E ok \in BOOLEAN :
          /\ ok \/ rx_faults > 0
          /\ rx_faults' = IF ok THEN rx_faults ELSE rx_faults - 1
          /\ rx_ops' = Append(rx_ops,
                 RxOp("rb", "RX_DATA_BUF_DATA", rx_sz + RX_METADATA_NB, ok,
                      IF ok THEN fifo[1].buff ELSE <<>>))
          /\ IF ok
             THEN AfterBurst(DecodePacket(rx_sz, stat_fifo, fifo[1].buff, s))
             ELSE /\ rx_pc' = "done"
                  /\ rx_ret' = RxError("transport")
                  /\ UNCHANGED <<pkt_data, rx_corr>>
    /\ UNCHANGED <<s, fifo, nb_pkt_fetch, rx_sz, stat_fifo>>
    /\ UNCHANGED <<pllVars, fwVars, decVars, startVars, parVars>>

\* a loop test that allows a 17th iteration
LoopTestOneMore(n) == n <= RX_MAX_PKT

\* the loop test nb_pkt_fetch < 16
LoopTest(n) == n < RX_MAX_PKT

\* err = Lgw_reg_w(LGW_RX_PACKET_DATA_FIFO_NUM_STORED, 0): err is not read;
\* then nb_pkt_fetch++ and the loop test, and return pkt_data, nil after it
AfterAdvance(ok) ==
    /\ nb_pkt_fetch' = nb_pkt_fetch + 1
    /\ IF LoopTest(nb_pkt_fetch + 1)
       THEN /\ rx_pc' = "hdr"
            /\ UNCHANGED rx_ret
       ELSE /\ rx_pc' = "done"
            /\ rx_ret' = RxOk(pkt_data)

\* a loop that goes to the next header without the advance write
Lgw_receive_no_advance ==
    /\ rx_pc = "adv"
    /\ fifo' = Tail(fifo)
    /\ AfterAdvance(TRUE)
    /\ UNCHANGED <<s, pkt_data, rx_sz, stat_fifo, rx_corr, rx_ops, rx_faults>>
    /\ UNCHANGED <<pllVars, fwVars, decVars, startVars, parVars>>

Lgw_receive_advance ==
    /\ rx_pc = "adv"
    /\ \E ok \in BOOLEAN :
          /\ ok \/ rx_faults > 0
          /\ rx_faults' = IF ok THEN rx_faults ELSE rx_faults - 1
          /\ rx_ops' = Append(rx_ops,
                 RxOp("w", "RX_PACKET_DATA_FIFO_NUM_STORED", 0, ok, <<>>))
          /\ fifo' = IF ok THEN Tail(fifo) ELSE fifo
          /\ AfterAdvance(ok)
    /\ UNCHANGED <<s, pkt_data, rx_sz, stat_fifo, rx_corr>>
    /\ UNCHANGED <<pllVars, fwVars, decVars, startVars, parVars>>

NextRx ==
    \/ Lgw_receive_call
    \/ Lgw_receive_header
    \/ Lgw_receive_burst
    \/ Lgw_receive_advance

(***************************************************************************)
(* Lgw_setup_sx125x                                                        *)
(***************************************************************************)
SX125x_TX_DAC_CLK_SEL == 1
SX125x_TX_DAC_GAIN == 2
SX125x_TX_MIX_GAIN == 14
SX125x_TX_PLL_BW == 1
SX125x_TX_ANA_BW == 0
SX125x_TX_DAC_BW == 5
SX125x_RX_LNA_GAIN == 1
SX125x_RX_BB_GAIN == 12
SX125x_LNA_ZIN == 1
SX125x_RX_ADC_BW == 7
SX125x_RX_ADC_TRIM == 6
SX125x_RX_BB_BW == 0
SX125x_RX_PLL_BW == 0
SX125x_ADC_TEMP == 0
SX125x_XOSC_GM_STARTUP == 13
SX125x_XOSC_DISABLE == 2
SX125x_32MHz_FRAC == 15625
PLL_LOCK_MAX_ATTEMPTS == 5

LGW_RADIO_TYPE_NONE == 0
LGW_RADIO_TYPE_SX1255 == 1
LGW_RADIO_TYPE_SX1257 == 2
LGW_RADIO_TYPE_SX1272 == 3
LGW_RADIO_TYPE_SX1276 == 4

\* bit i of a 32 bit word
W32Bit(w, i) == IF i >= 16 THEN (w[1] \div (2 ^ (i - 16))) % 2 ELSE (w[2] \div (2 ^ i)) % 2

RECURSIVE W32DivModFrom(_, _, _, _, _)
W32DivModFrom(w, d, i, q, r) ==
    IF i < 0
    THEN <<q, r>>
    ELSE IF 2 * r + W32Bit(w, i) >= d
         THEN W32DivModFrom(w, d, i - 1, 2 * q + 1, 2 * r + W32Bit(w, i) - d)
         ELSE W32DivModFrom(w, d, i - 1, 2 * q, 2 * r + W32Bit(w, i))

\* <<w / d, w % d>> of a uint32 w and a divisor of a million or more
W32DivMod(w, d) == W32DivModFrom(w, d, 31, 0, 0)

\* the writes to 0x08, 0x0A, 0x0B (TX) and 0x0C, 0x0D, 0x0E (RX gain and trim)
GainWrites ==
    << <<8, U8(SX125x_TX_MIX_GAIN + SX125x_TX_DAC_GAIN * 16)>>,
       <<10, U8(SX125x_TX_ANA_BW + SX125x_TX_PLL_BW * 32)>>,
       <<11, U8(SX125x_TX_DAC_BW)>>,
       <<12, U8(SX125x_LNA_ZIN + SX125x_RX_BB_GAIN * 2 + SX125x_RX_LNA_GAIN * 32)>>,
       <<13, U8(SX125x_RX_BB_BW + SX125x_RX_ADC_TRIM * 4 + SX125x_RX_ADC_BW * 32)>>,
       <<14, U8(SX125x_ADC_TEMP + SX125x_RX_PLL_BW * 2)>> >>

\* an integer part that uses the SX1257 divider for both radio types
PllPartIntShift8(type, freq_hz) == W32DivMod(freq_hz, SX125x_32MHz_FRAC * 256)[1]

\* part_int and part_frac of the RX PLL frequency
PllPartInt(type, freq_hz) ==
    IF type = LGW_RADIO_TYPE_SX1255
    THEN W32DivMod(freq_hz, SX125x_32MHz_FRAC * 128)[1]
    ELSE W32DivMod(freq_hz, SX125x_32MHz_FRAC * 256)[1]

\* a fractional part shifted by 8 on the SX1255 and by 9 on the SX1257
PllPartFracShiftPlus1(type, freq_hz) ==
    IF type = LGW_RADIO_TYPE_SX1255
    THEN (W32DivMod(freq_hz, SX125x_32MHz_FRAC * 128)[2] * 256) \div SX125x_32MHz_FRAC
    ELSE (W32DivMod(freq_hz, SX125x_32MHz_FRAC * 256)[2] * 512) \div SX125x_32MHz_FRAC

PllPartFrac(type, freq_hz) ==
    IF type = LGW_RADIO_TYPE_SX1255
    THEN (W32DivMod(freq_hz, SX125x_32MHz_FRAC * 128)[2] * 512) \div SX125x_32MHz_FRAC
    ELSE (W32DivMod(freq_hz, SX125x_32MHz_FRAC * 256)[2] * 256) \div SX125x_32MHz_FRAC

\* the writes to 0x01, 0x02, 0x03
FreqWrites(type, freq_hz) ==
    << <<1, U8(PllPartInt(type, freq_hz))>>,
       <<2, U8(PllPartFrac(type, freq_hz) \div 256)>>,
       <<3, U8(PllPartFrac(type, freq_hz))>> >>

\* a call of Sx125x_write or Sx125x_read: the radio it selects, the mux mode
\* and target it passes to the register transport, and how it ended
\* (ok, "param": rejected by the argument checks before any register access,
\* "transport": a register access failed)
SxOp(op, channel, mode, target, addr, data, end) ==
    [op |-> op, channel |-> channel, mode |-> mode, target |-> target,
     addr |-> addr, data |-> data, end |-> end]

\* checking input parameters, in Sx125x_write and Sx125x_read
SxParamsOk(channel, addr) == channel < LGW_RF_CHAIN_NB /\ addr < 127

\* the test on the value read at 0x11 with mask 0x01 instead of 0x02
LockTestBit0(val) == val % 2 # 0

\* (val & 0x02) != 0
LockTest(val) == (val \div 2) % 2 # 0

\* target frequencies: none, the 433 and 868 MHz bands, the last frequency
\* whose integer part fits a byte on each radio type and the next one, and
\* the largest uint32
PllFreqs ==
    {W32(0), W32(434123456), W32(511999999), W32(512000000), W32(867500000),
     W32(868100123), W32(1023999999), <<65535, 65535>>}

PllInputs ==
    [mode : {0, 1}, target : {0, 1, 2}, rf_chain : {0, 1, 2}, rf_clkout : {0, 1},
     rf_radio_type : LGW_RADIO_TYPE_NONE..LGW_RADIO_TYPE_SX1276,
     freq_hz : PllFreqs]

\* values the radio's status register 0x11 can give
StatusReads == {0, 2, 253}

InitPll ==
    /\ pll_in \in PllInputs
    /\ pll_pc = "idle"
    /\ pll_idx = 0
    /\ cpt_attempts = 0
    /\ pll_ops = <<>>
    /\ pll_lock = <<>>
    /\ pll_ret = "pending"

PllReturn(r) == pll_pc' = "done" /\ pll_ret' = r

\* one Sx125x_write(c, rf_chain, lgw_spi_mux_mode, spi_mux_target, addr, data)
\* followed by "if err != nil { return err }"
PllWrite(addr, data, next, idx) ==
    \E ok \in BOOLEAN :
        /\ pll_ops' = Append(pll_ops,
               SxOp("w", pll_in.rf_chain, pll_in.mode, pll_in.target, addr, data,
                    IF ~SxParamsOk(pll_in.rf_chain, addr) THEN "param"
                    ELSE IF ok THEN "ok" ELSE "transport"))
        /\ IF ~SxParamsOk(pll_in.rf_chain, addr)
           THEN PllReturn("param") /\ UNCHANGED pll_idx
           ELSE IF ok
           THEN pll_pc' = next /\ pll_idx' = idx /\ UNCHANGED pll_ret
           ELSE PllReturn("transport") /\ UNCHANGED pll_idx

Lgw_setup_sx125x_call ==
    /\ pll_pc = "idle"
    /\ IF pll_in.rf_chain >= LGW_RF_CHAIN_NB
       THEN PllReturn("invalid_rf_chain")
       ELSE pll_pc' = "version" /\ UNCHANGED pll_ret
    /\ UNCHANGED <<pll_in, pll_idx, cpt_attempts, pll_ops, pll_lock>>
    /\ UNCHANGED <<rxVars, fwVars, decVars, startVars, parVars>>

\* Sx125x_read(c, lgw_spi_mux_mode, spi_mux_target, rf_chain, 0x07)
Lgw_setup_sx125x_version ==
    /\ pll_pc = "version"
    /\ \E ok \in BOOLEAN, b \in {33} :
          /\ pll_ops' = Append(pll_ops,
                 SxOp("r", pll_in.rf_chain, pll_in.mode, pll_in.target, 7,
                      IF ok THEN b ELSE 0, IF ok THEN "ok" ELSE "transport"))
          /\ IF ok
             THEN pll_pc' = "clk" /\ UNCHANGED pll_ret
             ELSE PllReturn("transport")
    /\ UNCHANGED <<pll_in, pll_idx, cpt_attempts, pll_lock>>
    /\ UNCHANGED <<rxVars, fwVars, decVars, startVars, parVars>>

\* General radio setup: register 0x10
Lgw_setup_sx125x_clk ==
    /\ pll_pc = "clk"
    /\ PllWrite(16,
                IF pll_in.rf_clkout = pll_in.rf_chain
                THEN U8(SX125x_TX_DAC_CLK_SEL + 2) ELSE U8(SX125x_TX_DAC_CLK_SEL),
                "xosc", 0)
    /\ UNCHANGED <<pll_in, cpt_attempts, pll_lock>>
    /\ UNCHANGED <<rxVars, fwVars, decVars, startVars, parVars>>

\* a switch that has a case for every radio type but NONE
RadioTypeNotNone(type) == type # LGW_RADIO_TYPE_NONE

\* the cases of "switch rf_radio_type"
RadioTypeKnown(type) == type \in {LGW_RADIO_TYPE_SX1255, LGW_RADIO_TYPE_SX1257}

\* switch rf_radio_type: register 0x28 or 0x26, or the default's error
Lgw_setup_sx125x_xosc ==
    /\ pll_pc = "xosc"
    /\ IF RadioTypeKnown(pll_in.rf_radio_type)
       THEN PllWrite(IF pll_in.rf_radio_type = LGW_RADIO_TYPE_SX1255 THEN 40 ELSE 38,
                     U8(SX125x_XOSC_GM_STARTUP + SX125x_XOSC_DISABLE * 16),
                     "gain", 1)
       ELSE PllReturn("radio_type") /\ UNCHANGED <<pll_ops, pll_idx>>
    /\ UNCHANGED <<pll_in, cpt_attempts, pll_lock>>
    /\ UNCHANGED <<rxVars, fwVars, decVars, startVars, parVars>>

\* the six gain and trim writes, one at a time
Lgw_setup_sx125x_gain ==
    /\ pll_pc = "gain"
    /\ PllWrite(GainWrites[pll_idx][1], GainWrites[pll_idx][2],
                IF pll_idx < Len(GainWrites) THEN "gain" ELSE "freq",
                IF pll_idx < Len(GainWrites) THEN pll_idx + 1 ELSE 1)
    /\ UNCHANGED <<pll_in, cpt_attempts, pll_lock>>
    /\ UNCHANGED <<rxVars, fwVars, decVars, startVars, parVars>>

\* set RX PLL frequency: registers 0x01, 0x02, 0x03 (the switch's default
\* cannot be met: the first switch returned for those radio types)
Lgw_setup_sx125x_freq ==
    /\ pll_pc = "freq"
    /\ PllWrite(FreqWrites(pll_in.rf_radio_type, pll_in.freq_hz)[pll_idx][1],
                FreqWrites(pll_in.rf_radio_type, pll_in.freq_hz)[pll_idx][2],
                IF pll_idx < 3 THEN "freq" ELSE "osc",
                IF pll_idx < 3 THEN pll_idx + 1 ELSE 0)
    /\ UNCHANGED <<pll_in, cpt_attempts, pll_lock>>
    /\ UNCHANGED <<rxVars, fwVars, decVars, startVars, parVars>>

\* loop body, first part: the test on cpt_attempts inside the loop, then
\* enable Xtal oscillator (0x00 <- 1)
Lgw_setup_sx125x_osc ==
    /\ pll_pc = "osc"
    /\ IF cpt_attempts >= PLL_LOCK_MAX_ATTEMPTS
       THEN PllReturn("pll_lock_timeout") /\ UNCHANGED <<pll_ops, pll_idx>>
       ELSE PllWrite(0, 1, "rx", 0)
    /\ UNCHANGED <<pll_in, cpt_attempts, pll_lock>>
    /\ UNCHANGED <<rxVars, fwVars, decVars, startVars, parVars>>

\* Enable RX (PLL+FE) (0x00 <- 3)
Lgw_setup_sx125x_rx ==
    /\ pll_pc = "rx"
    /\ PllWrite(0, 3, "poll", 0)
    /\ UNCHANGED <<pll_in, cpt_attempts, pll_lock>>
    /\ UNCHANGED <<rxVars, fwVars, decVars, startVars, parVars>>

\* what follows a completed read of 0x11: return on the lock test, else
\* cpt_attempts++ and the loop condition, and "return nil" after the loop
AfterPoll(val) ==
    IF LockTest(val)
    THEN PllReturn("ok") /\ UNCHANGED cpt_attempts
    ELSE /\ cpt_attempts' = cpt_attempts + 1
         /\ IF cpt_attempts + 1 < PLL_LOCK_MAX_ATTEMPTS
            THEN pll_pc' = "osc" /\ UNCHANGED pll_ret
            ELSE PllReturn("ok")

\* val, err := Sx125x_read(c, rf_chain, lgw_spi_mux_mode, spi_mux_target, 0x11):
\* Sx125x_read takes (c, spi_mux_mode, spi_mux_target, channel, addr), so the
\* call selects radio spi_mux_target through mux mode rf_chain and mux target
\* lgw_spi_mux_mode
Lgw_setup_sx125x_poll ==
    /\ pll_pc = "poll"
    /\ \E ok \in BOOLEAN, val \in StatusReads :
          LET pok == SxParamsOk(pll_in.target, 17)
              done == pok /\ ok
          IN  /\ (~done) => val = 0
              /\ pll_ops' = Append(pll_ops,
                     SxOp("r", pll_in.target, pll_in.rf_chain, pll_in.mode, 17, val,
                          IF ~pok THEN "param" ELSE IF ok THEN "ok" ELSE "transport"))
              /\ pll_lock' = IF done THEN Append(pll_lock, (val \div 2) % 2)
                             ELSE pll_lock
              /\ IF done
                 THEN AfterPoll(val)
                 ELSE /\ PllReturn(IF pok THEN "transport" ELSE "param")
                      /\ UNCHANGED cpt_attempts
    /\ UNCHANGED <<pll_in, pll_idx>>
    /\ UNCHANGED <<rxVars, fwVars, decVars, startVars, parVars>>

NextPll ==
    \/ Lgw_setup_sx125x_call
    \/ Lgw_setup_sx125x_version
    \/ Lgw_setup_sx125x_clk
    \/ Lgw_setup_sx125x_xosc
    \/ Lgw_setup_sx125x_gain
    \/ Lgw_setup_sx125x_freq
    \/ Lgw_setup_sx125x_osc
    \/ Lgw_setup_sx125x_rx
    \/ Lgw_setup_sx125x_poll

(***************************************************************************)
(* Load_firmware                                                           *)
(***************************************************************************)
MCU_ARB == 0
MCU_AGC == 1

MaxFwLen == 2      \* bytes of the longest firmware image
FwBytes == {0, 1, 255}

\* a Go []byte: nil, or a (possibly empty) sequence of bytes
NilSlice == [isnil |-> TRUE, bytes |-> <<>>]
Slice(b) == [isnil |-> FALSE, bytes |-> b]

FwImages ==
    {NilSlice} \cup {Slice(b) : b \in UNION {[1..n -> FwBytes] : n \in 0..MaxFwLen}}

\* what Lgw_reg_rb can hand back for a read of n bytes: n bytes the hardware
\* chooses; with n = 0 the slice is empty, nil or not
ReadBacks(n) ==
    {Slice(b) : b \in [1..n -> FwBytes]} \cup (IF n = 0 THEN {NilSlice} ELSE {})

\* a comparison of the lengths only
DeepEqualLengths(a, b) == Len(a.bytes) = Len(b.bytes)

\* a comparison that accepts every read-back
DeepEqualAlways(a, b) == TRUE

\* reflect.DeepEqual on two []byte: both nil or both not nil, the same length,
\* and equal elements
DeepEqual(a, b) == a.isnil = b.isnil /\ a.bytes = b.bytes

\* the reset register of the arbiter for either target
RegRstOfArb(target) == "MCU_RST_0"

\* reg_rst and reg_sel of the target
RegRst(target) == IF target = MCU_ARB THEN "MCU_RST_0" ELSE "MCU_RST_1"
RegSel(target) == IF target = MCU_ARB THEN "MCU_SELECT_MUX_0" ELSE "MCU_SELECT_MUX_1"

FwOp(op, reg, arg, ok) == [op |-> op, reg |-> reg, arg |-> arg, ok |-> ok]

InitFw ==
    /\ fw_in \in [target : {MCU_ARB, MCU_AGC, 2}, firmware : FwImages]
    /\ fw_pc = "idle"
    /\ fw_ops = <<>>
    /\ fw_check = NilSlice
    /\ fw_ret = "pending"

\* one transport call followed by "if err != nil { return err }"
FwStep(op, reg, arg, next) ==
    \E ok \in BOOLEAN :
        /\ fw_ops' = Append(fw_ops, FwOp(op, reg, arg, ok))
        /\ IF ok
           THEN fw_pc' = next /\ UNCHANGED fw_ret
           ELSE fw_pc' = "done" /\ fw_ret' = "transport"

Load_firmware_call ==
    /\ fw_pc = "idle"
    /\ IF fw_in.target = MCU_ARB \/ fw_in.target = MCU_AGC
       THEN fw_pc' = "rst" /\ UNCHANGED fw_ret
       ELSE fw_pc' = "done" /\ fw_ret' = "target"
    /\ UNCHANGED <<fw_in, fw_ops, fw_check>>
    /\ UNCHANGED <<rxVars, pllVars, decVars, startVars, parVars>>

\* reset the targeted MCU
Load_firmware_rst ==
    /\ fw_pc = "rst"
    /\ FwStep("w", RegRst(fw_in.target), 1, "sel")
    /\ UNCHANGED <<fw_in, fw_check>>
    /\ UNCHANGED <<rxVars, pllVars, decVars, startVars, parVars>>

\* set mux to access MCU program RAM
Load_firmware_sel ==
    /\ fw_pc = "sel"
    /\ FwStep("w", RegSel(fw_in.target), 0, "addr")
    /\ UNCHANGED <<fw_in, fw_check>>
    /\ UNCHANGED <<rxVars, pllVars, decVars, startVars, parVars>>

\* and set address to 0
Load_firmware_addr ==
    /\ fw_pc = "addr"
    /\ FwStep("w", "MCU_PROM_ADDR", 0, "wb")
    /\ UNCHANGED <<fw_in, fw_check>>
    /\ UNCHANGED <<rxVars, pllVars, decVars, startVars, parVars>>

\* write the program in one burst
Load_firmware_wb ==
    /\ fw_pc = "wb"
    /\ FwStep("wb", "MCU_PROM_DATA", fw_in.firmware.bytes, "dummy")
    /\ UNCHANGED <<fw_in, fw_check>>
    /\ UNCHANGED <<rxVars, pllVars, decVars, startVars, parVars>>

\* a load that goes from the burst write to the verifying read at once
Load_firmware_no_dummy ==
    /\ fw_pc = "dummy"
    /\ fw_pc' = "rb"
    /\ UNCHANGED <<fw_in, fw_ops, fw_check, fw_ret>>
    /\ UNCHANGED <<rxVars, pllVars, decVars, startVars, parVars>>

\* the single read whose value is dropped ("bug workaround")
Load_firmware_dummy ==
    /\ fw_pc = "dummy"
    /\ FwStep("r", "MCU_PROM_DATA", 0, "rb")
    /\ UNCHANGED <<fw_in, fw_check>>
    /\ UNCHANGED <<rxVars, pllVars, decVars, startVars, parVars>>

\* fw_check, err := Lgw_reg_rb(.., LGW_MCU_PROM_DATA, uint16(len(firmware)))
\* and the comparison with the image
Load_firmware_rb ==
    /\ fw_pc = "rb"
    /\ \E ok \in BOOLEAN, data \in ReadBacks(Len(fw_in.firmware.bytes)) :
          /\ (~ok) => data = CHOOSE d \in ReadBacks(Len(fw_in.firmware.bytes)) : TRUE
          /\ fw_ops' = Append(fw_ops,
                 FwOp("rb", "MCU_PROM_DATA", U16(Len(fw_in.firmware.bytes)), ok))
          /\ IF ~ok
             THEN fw_pc' = "done" /\ fw_ret' = "transport" /\ UNCHANGED fw_check
             ELSE /\ fw_check' = data
                  /\ IF DeepEqual(fw_in.firmware, data)
                     THEN fw_pc' = "release" /\ UNCHANGED fw_ret
                     ELSE fw_pc' = "done" /\ fw_ret' = "verify"
    /\ UNCHANGED fw_in
    /\ UNCHANGED <<rxVars, pllVars, decVars, startVars, parVars>>

\* give back control of the MCU program ram to the MCU
Load_firmware_release ==
    /\ fw_pc = "release"
    /\ \E ok \in BOOLEAN :
          /\ fw_ops' = Append(fw_ops, FwOp("w", RegSel(fw_in.target), 1, ok))
          /\ fw_pc' = "done"
          /\ fw_ret' = IF ok THEN "ok" ELSE "transport"
    /\ UNCHANGED <<fw_in, fw_check>>
    /\ UNCHANGED <<rxVars, pllVars, decVars, startVars, parVars>>

NextFw ==
    \/ Load_firmware_call
    \/ Load_firmware_rst
    \/ Load_firmware_sel
    \/ Load_firmware_addr
    \/ Load_firmware_wb
    \/ Load_firmware_dummy
    \/ Load_firmware_rb
    \/ Load_firmware_release

(***************************************************************************)
(* The decoding of one packet over the whole range of its inputs           *)
(***************************************************************************)
\* the modem a packet comes from: its IF chain and, for the stand-alone LoRa
\* modem, the bandwidth it is configured with
DecModems ==
    {<<0, BW_125KHZ>>, <<8, BW_125KHZ>>, <<8, BW_250KHZ>>, <<8, BW_500KHZ>>,
     <<8, BW_UNDEFINED>>, <<9, BW_125KHZ>>}

DecState(bw) ==
    [if_rf_chain |-> <<0, 0, 0, 0, 1, 1, 1, 1, 0, 0>>,
     rf_rx_freq |-> <<W32(867500000), W32(868500000)>>,
     if_freq |-> <<-400000, -200000, 0, -400000, -200000, 0, 200000, 400000,
                   -200000, 300000>>,
     lora_rx_bw |-> bw]

NotDecoded == [kind |-> "none", pkt |-> ZeroPkt, corr |-> 0]

\* the FSK modem does not read the SF/CR byte: one value of it is enough there
InitDec ==
    /\ dec_in \in [modem : DecModems, sf : 0..15, cr : 0..7, stat : {1, 5},
                   sz : 0..255, raw : {W32(1000000)}]
    /\ LGW_IFMODEM_CONFIG[dec_in.modem[1] + 1] = IF_FSK_STD
          => dec_in.sf = 0 /\ dec_in.cr = 0
    /\ dec_out = NotDecoded

\* CRC status bytes: every value of the low 3 bits, with the high bits clear,
\* with bit 3 set, and with all of them set
StatBytes == (0..15) \cup (248..255)

\* the same decoding over the CRC status byte and, for the FSK modem, over
\* the whole SF/CR byte and a timestamp near 2^32; the LoRa modems get two
\* spreading factors
InitTrailer ==
    /\ dec_in \in [modem : DecModems, sf : 0..15, cr : 0..7, stat : StatBytes,
                   sz : {0, 2, 255}, raw : {W32(1000000), <<65535, 65530>>}]
    /\ LGW_IFMODEM_CONFIG[dec_in.modem[1] + 1] # IF_FSK_STD
          => /\ dec_in.sf \in {7, 12}
             /\ dec_in.cr = 1
             /\ dec_in.raw = W32(1000000)
    /\ dec_out = NotDecoded

\* the body of one loop iteration on the buffer read; the payload copied is
\* not kept in dec_out
Decode ==
    /\ dec_out = NotDecoded
    /\ dec_out' = [DecodePacket(dec_in.sz, dec_in.stat,
                                MkBuff(dec_in.sz, dec_in.modem[1],
                                       dec_in.sf * 16 + dec_in.cr * 2,
                                       dec_in.raw, 4660),
                                DecState(dec_in.modem[2]))
                      EXCEPT !.pkt.Payload = <<>>]
    /\ UNCHANGED dec_in
    /\ UNCHANGED <<rxVars, pllVars, fwVars, startVars, parVars>>

NextDec == Decode

(***************************************************************************)
(* Lgw_start                                                               *)
(* The body of Lgw_start is straight-line code apart from the gain table   *)
(* loop: StartProgram lists its steps for a given State, in source order,  *)
(* and the actions execute the step at start_idx.  Lgw_connect and         *)
(* Lgw_soft_reset belong to the transport, like the register accesses.     *)
(***************************************************************************)
FW_VERSION_ADDR == 32
FW_VERSION_CAL == 2
FW_VERSION_AGC == 4
FW_VERSION_ARB == 1
AGC_CMD_WAIT == 16
AGC_CMD_ABORT == 17
TX_GAIN_LUT_SIZE_MAX == 16
LGW_MULTI_NB == 8
LGW_XTAL_FREQU == 32000000
TX_START_DELAY_DEFAULT == 1497
DR_LORA_MULTI == 126

\* the stages of Lgw_start, in source order
StartStages ==
    <<"connect", "reset", "gate", "power", "setup0", "setup1", "gpio", "clocks",
      "cal", "dcoffset", "adjust", "drift", "ifmodem", "fwload", "release",
      "version", "agc", "gps">>

StageNo(stage) == CHOOSE i \in 1..Len(StartStages) : StartStages[i] = stage

\* one step: a transport call (connect, reset, w, r), a read whose value is
\* tested (version, cal, agc), a test of the configuration (cfg), a nested
\* call (setup, fw), or a run-time panic
\* (tag names the State field a read is stored in, or the AGC transaction)
Tagged(stage, kind, reg, arg, exp, tag) ==
    [stage |-> stage, kind |-> kind, reg |-> reg, arg |-> arg, exp |-> exp,
     tag |-> tag]

Step(stage, kind, reg, arg, exp) == Tagged(stage, kind, reg, arg, exp, "")

RegW(stage, reg, arg) == Step(stage, "w", reg, arg, 0)

\* a configuration test: the step fails with error err when bad holds
Cfg(stage, err, bad) == Step(stage, "cfg", err, IF bad THEN 1 ELSE 0, 0)

\* connect, reset, gate clocks, switch on and reset the radios
StageBringUp(st) ==
    << Step("connect", "connect", "Lgw_connect",
            st.rf_tx_notch_freq[IF st.rf_tx_enable[2] THEN 2 ELSE 1], 0),
       Step("reset", "reset", "Lgw_soft_reset", 0, 0),
       RegW("gate", "GLOBAL_EN", 0),
       RegW("gate", "CLK32M_EN", 0),
       RegW("power", "RADIO_A_EN", 1),
       RegW("power", "RADIO_B_EN", 1),
       RegW("power", "RADIO_RST", 1),
       RegW("power", "RADIO_RST", 0) >>

\* setup the radios, GPIOs, enable clocks
StageRadios(st) ==
    << Step("setup0", "setup", "Lgw_setup_sx125x", 0, 0),
       Step("setup1", "setup", "Lgw_setup_sx125x", 1, 0),
       RegW("gpio", "GPIO_MODE", 31),
       RegW("gpio", "GPIO_SELECT_OUTPUT", 2),
       RegW("clocks", "GLOBAL_EN", 1),
       RegW("clocks", "CLK32M_EN", 1) >>

\* a command word without bit 4, the DAC gain of the calibration
CalCmdWithoutDacGain(st) ==
    (IF st.rf_enable[1] THEN 1 ELSE 0)
    + (IF st.rf_enable[2] THEN 2 ELSE 0)
    + (IF st.rf_enable[1] /\ st.rf_tx_enable[1] THEN 4 ELSE 0)
    + (IF st.rf_enable[2] /\ st.rf_tx_enable[2] THEN 8 ELSE 0)
    + (IF st.rf_radio_type[1] = LGW_RADIO_TYPE_SX1255 THEN 32 ELSE 0)

\* select calibration command
CalCmd(st) ==
    (IF st.rf_enable[1] THEN 1 ELSE 0)
    + (IF st.rf_enable[2] THEN 2 ELSE 0)
    + (IF st.rf_enable[1] /\ st.rf_tx_enable[1] THEN 4 ELSE 0)
    + (IF st.rf_enable[2] /\ st.rf_tx_enable[2] THEN 8 ELSE 0)
    + 16
    + (IF st.rf_radio_type[1] = LGW_RADIO_TYPE_SX1255 THEN 32 ELSE 0)

\* a calibration whose status is read before the host takes control back
StageCalibrationStatusEarly(st) ==
    << Cfg("cal", "radio_type",
           st.rf_radio_type[1] \notin {LGW_RADIO_TYPE_SX1255, LGW_RADIO_TYPE_SX1257}),
       Step("cal", "fw", "cal_firmware", MCU_AGC, 0),
       RegW("cal", "FORCE_HOST_RADIO_CTRL", 0),
       RegW("cal", "RADIO_SELECT", CalCmd(st)),
       RegW("cal", "MCU_RST_1", 0),
       RegW("cal", "DBG_AGC_MCU_RAM_ADDR", FW_VERSION_ADDR),
       Step("cal", "version", "DBG_AGC_MCU_RAM_DATA", 0, FW_VERSION_CAL),
       RegW("cal", "PAGE_REG", 3),
       RegW("cal", "EMERGENCY_FORCE_HOST_CTRL", 0),
       Step("cal", "cal", "MCU_AGC_STATUS", 0, 0),
       RegW("cal", "EMERGENCY_FORCE_HOST_CTRL", 1) >>

\* the calibration: command word, calibration firmware, version, run, status
StageCalibration(st) ==
    << Cfg("cal", "radio_type",
           st.rf_radio_type[1] \notin {LGW_RADIO_TYPE_SX1255, LGW_RADIO_TYPE_SX1257}),
       Step("cal", "fw", "cal_firmware", MCU_AGC, 0),
       RegW("cal", "FORCE_HOST_RADIO_CTRL", 0),
       RegW("cal", "RADIO_SELECT", CalCmd(st)),
       RegW("cal", "MCU_RST_1", 0),
       RegW("cal", "DBG_AGC_MCU_RAM_ADDR", FW_VERSION_ADDR),
       Step("cal", "version", "DBG_AGC_MCU_RAM_DATA", 0, FW_VERSION_CAL),
       RegW("cal", "PAGE_REG", 3),
       RegW("cal", "EMERGENCY_FORCE_HOST_CTRL", 0),
       RegW("cal", "EMERGENCY_FORCE_HOST_CTRL", 1),
       Step("cal", "cal", "MCU_AGC_STATUS", 0, 0) >>

\* Get TX DC offset values: for i = 0..7, addresses 0xA0+i, 0xA8+i, 0xB0+i,
\* 0xB8+i; the read is stored in field tag of the State at index arg
DcFields == <<"a_i", "a_q", "b_i", "b_q">>

StageDcOffset ==
    [n \in 1..64 |->
        LET i == (n - 1) \div 8
            k == ((n - 1) % 8) \div 2
        IN  IF n % 2 = 1
            THEN RegW("dcoffset", "DBG_AGC_MCU_RAM_ADDR", 160 + 8 * k + i)
            ELSE Tagged("dcoffset", "r", "DBG_AGC_MCU_RAM_DATA", i, 0, DcFields[k + 1])]

\* frame synch peak positions of a public and of a private network
Peak1(st) == IF st.lorawan_public THEN 3 ELSE 1
Peak2(st) == IF st.lorawan_public THEN 4 ELSE 2

\* Lgw_constant_adjust: load adjusted parameters
Lgw_constant_adjust(st) ==
    << RegW("adjust", "RSSI_BB_FILTER_ALPHA", 6),
       RegW("adjust", "RSSI_DEC_FILTER_ALPHA", 7),
       RegW("adjust", "RSSI_CHANN_FILTER_ALPHA", 7),
       RegW("adjust", "RSSI_BB_DEFAULT_VALUE", 23),
       RegW("adjust", "RSSI_CHANN_DEFAULT_VALUE", 85),
       RegW("adjust", "RSSI_DEC_DEFAULT_VALUE", 66),
       RegW("adjust", "DEC_GAIN_OFFSET", 7),
       RegW("adjust", "CHAN_GAIN_OFFSET", 6),
       RegW("adjust", "SNR_AVG_CST", 3),
       RegW("adjust", "FRAME_SYNCH_PEAK1_POS", Peak1(st)),
       RegW("adjust", "FRAME_SYNCH_PEAK2_POS", Peak2(st)),
       RegW("adjust", "MBWSSF_FRAME_SYNCH_PEAK1_POS", Peak1(st)),
       RegW("adjust", "MBWSSF_FRAME_SYNCH_PEAK2_POS", Peak2(st)),
       RegW("adjust", "ADJUST_MODEM_START_OFFSET_RDX4", 1),
       RegW("adjust", "ADJUST_MODEM_START_OFFSET_SF12_RDX4", 4094),
       RegW("adjust", "CORR_MAC_GAIN", 7),
       RegW("adjust", "FSK_RX_INVERT", 1),
       RegW("adjust", "FSK_MODEM_INVERT_IQ", 1),
       RegW("adjust", "FSK_RSSI_LENGTH", 4),
       RegW("adjust", "FSK_PKT_MODE", 1),
       RegW("adjust", "FSK_CRC_EN", 1),
       RegW("adjust", "FSK_DCFREE_ENC", 2),
       RegW("adjust", "FSK_ERROR_OSR_TOL", 10),
       RegW("adjust", "FSK_PKT_LENGTH", 255),
       RegW("adjust", "FSK_PATTERN_TIMEOUT_CFG", 128),
       RegW("adjust", "TX_START_DELAY", TX_START_DELAY_DEFAULT),
       RegW("adjust", "TX_SWAP_IQ", 1),
       RegW("adjust", "TX_FRAME_SYNCH_PEAK1_POS", Peak1(st)),
       RegW("adjust", "TX_FRAME_SYNCH_PEAK2_POS", Peak2(st)),
       RegW("adjust", "FSK_TX_GAUSSIAN_SELECT_BT", 2) >>

\* freq >> n of a uint32 (n >= 1)
W32Shr(w, n) == (w[1] * (65536 \div (2 ^ n))) + (w[2] \div (2 ^ n))

\* x := 4096000000 / (rf_rx_freq[0] >> n), saturated at 63; the division
\* panics when the shifted frequency is 0
DriftDivisorZero(freq, n) == W32Shr(freq, n) = 0
DriftReg(freq, n) == Min(63, W32DivMod(<<62500, 0>>, W32Shr(freq, n))[1])

\* sanity check for RX frequency, then the freq-to-time-drift registers
StageDrift(st) ==
    << Cfg("drift", "rf_rx_freq", st.rf_rx_freq[1] = W32(0)) >>
    \o (IF st.rf_rx_freq[1] = W32(0) THEN <<>>
        ELSE IF DriftDivisorZero(st.rf_rx_freq[1], 1)
        THEN << Step("drift", "panic", "integer divide by zero", 0, 0) >>
        ELSE << RegW("drift", "FREQ_TO_TIME_DRIFT", DriftReg(st.rf_rx_freq[1], 1)) >>
             \o (IF DriftDivisorZero(st.rf_rx_freq[1], 3)
                 THEN << Step("drift", "panic", "integer divide by zero", 0, 0) >>
                 ELSE << RegW("drift", "MBWSSF_FREQ_TO_TIME_DRIFT",
                              DriftReg(st.rf_rx_freq[1], 3)) >>))

\* IF_HZ_TO_REG: (f << 5) / 15625 on int32 (no IF frequency here reaches 2^26)
IF_HZ_TO_REG(f) == GoDiv(f * 32, 15625)

\* radio_select: IF mapping to radio A/B (per bit, 0=A, 1=B)
RECURSIVE RadioSelectFrom(_, _)
RadioSelectFrom(st, i) ==
    IF i > LGW_MULTI_NB THEN 0
    ELSE (IF st.if_rf_chain[i] = 1 THEN 2 ^ (i - 1) ELSE 0) + RadioSelectFrom(st, i + 1)

\* a radio_select that takes a bit from each of the ten IF chains
RadioSelectAllChains(st) ==
    RadioSelectFrom(st, 1) + (IF st.if_rf_chain[9] = 1 THEN 256 ELSE 0)
    + (IF st.if_rf_chain[10] = 1 THEN 512 ELSE 0)

RadioSelect(st) == RadioSelectFrom(st, 1)

\* corr when CORRn_DETECT_EN is written (n = 1 for CORR0): "var corr int32" is
\* assigned only for an enabled channel and keeps its value otherwise
RECURSIVE CorrOf(_, _)
CorrOf(st, n) ==
    IF st.if_enable[n] THEN st.lora_multi_sfmask[n]
    ELSE IF n = 1 THEN 0
    ELSE CorrOf(st, n - 1)

\* configure LoRa 'multi' demodulators
StageMulti(st) ==
    [n \in 1..LGW_MULTI_NB |->
        RegW("ifmodem", <<"IF_FREQ_0", "IF_FREQ_1", "IF_FREQ_2", "IF_FREQ_3",
                          "IF_FREQ_4", "IF_FREQ_5", "IF_FREQ_6", "IF_FREQ_7">>[n],
             IF_HZ_TO_REG(st.if_freq[n]))]
    \o [n \in 1..LGW_MULTI_NB |->
        RegW("ifmodem", <<"CORR0_DETECT_EN", "CORR1_DETECT_EN", "CORR2_DETECT_EN",
                          "CORR3_DETECT_EN", "CORR4_DETECT_EN", "CORR5_DETECT_EN",
                          "CORR6_DETECT_EN", "CORR7_DETECT_EN">>[n],
             CorrOf(st, n))]
    \o << RegW("ifmodem", "PPM_OFFSET", 96),
          RegW("ifmodem", "CONCENTRATOR_MODEM_ENABLE", 1) >>

\* the switches on lora_rx_bw and lora_rx_sf
MbwssfBwKnown(bw) == bw \in {BW_125KHZ, BW_250KHZ, BW_500KHZ}
MbwssfBw(bw) == IF bw = BW_125KHZ THEN 0 ELSE IF bw = BW_250KHZ THEN 1 ELSE 2
MbwssfSfKnown(sf) ==
    sf \in {DR_LORA_SF7, DR_LORA_SF8, DR_LORA_SF9, DR_LORA_SF10, DR_LORA_SF11,
            DR_LORA_SF12}
MbwssfSf(sf) ==
    CASE sf = DR_LORA_SF7 -> 7 [] sf = DR_LORA_SF8 -> 8 [] sf = DR_LORA_SF9 -> 9
      [] sf = DR_LORA_SF10 -> 10 [] sf = DR_LORA_SF11 -> 11 [] OTHER -> 12

\* configure LoRa 'stand-alone' modem (IF8)
StageLoraStd(st) ==
    << RegW("ifmodem", "IF_FREQ_8", IF_HZ_TO_REG(st.if_freq[9])) >>
    \o (IF ~st.if_enable[9]
        THEN << RegW("ifmodem", "MBWSSF_MODEM_ENABLE", 0) >>
        ELSE << RegW("ifmodem", "MBWSSF_RADIO_SELECT", st.if_rf_chain[9]) >>
             \o (IF ~MbwssfBwKnown(st.lora_rx_bw)
                 THEN << Cfg("ifmodem", "lora_rx_bw", TRUE) >>
                 ELSE << RegW("ifmodem", "MBWSSF_MODEM_BW", MbwssfBw(st.lora_rx_bw)) >>
                      \o (IF ~MbwssfSfKnown(st.lora_rx_sf)
                          THEN << Cfg("ifmodem", "lora_rx_sf", TRUE) >>
                          ELSE << RegW("ifmodem", "MBWSSF_RATE_SF",
                                       MbwssfSf(st.lora_rx_sf)),
                                  RegW("ifmodem", "MBWSSF_PPM_OFFSET",
                                       IF st.lora_rx_ppm_offset THEN 1 ELSE 0),
                                  RegW("ifmodem", "MBWSSF_MODEM_ENABLE", 1) >>)))

\* int32 of the 32 bits b1 b2 b3 b4 (b1 the most significant byte)
I32(b1, b2, b3, b4) ==
    (IF b1 >= 128 THEN b1 - 256 ELSE b1) * 16777216 + b2 * 65536 + b3 * 256 + b4

\* fsk_sync_word << (8 * (8 - fsk_sync_word_size)) on a uint64 kept as its 8
\* bytes, most significant first; the shift count is computed on bytes
FskSyncWordReg(word, size) ==
    LET sh == U8(8 * U8(8 - size))
    IN  [i \in 1..8 |->
            IF sh < 64 /\ i + (sh \div 8) <= 8 THEN word[i + (sh \div 8)] ELSE 0]

\* configure FSK modem (IF9)
StageFsk(st) ==
    LET reg == FskSyncWordReg(st.fsk_sync_word, st.fsk_sync_word_size)
    IN  << RegW("ifmodem", "IF_FREQ_9", IF_HZ_TO_REG(st.if_freq[10])),
           RegW("ifmodem", "FSK_PSIZE", U8(st.fsk_sync_word_size - 1)),
           RegW("ifmodem", "FSK_TX_PSIZE", U8(st.fsk_sync_word_size - 1)),
           RegW("ifmodem", "FSK_REF_PATTERN_LSB", I32(reg[5], reg[6], reg[7], reg[8])),
           RegW("ifmodem", "FSK_REF_PATTERN_MSB", I32(reg[1], reg[2], reg[3], reg[4])) >>
        \o (IF ~st.if_enable[10]
            THEN << RegW("ifmodem", "FSK_MODEM_ENABLE", 0) >>
            ELSE << RegW("ifmodem", "FSK_RADIO_SELECT", st.if_rf_chain[10]) >>
                 \o (IF st.fsk_rx_dr = 0
                     THEN << Step("ifmodem", "panic", "integer divide by zero", 0, 0) >>
                     ELSE << RegW("ifmodem", "FSK_BR_RATIO",
                                  LGW_XTAL_FREQU \div st.fsk_rx_dr),
                             RegW("ifmodem", "FSK_CH_BW_EXPO", st.fsk_rx_bw),
                             RegW("ifmodem", "FSK_MODEM_ENABLE", 1) >>))

\* load firmware, give the AGC MCU control, get MCUs out of reset, check
\* firmware version
StageFirmware(st) ==
    << Step("fwload", "fw", "arb_firmware", MCU_ARB, 0),
       Step("fwload", "fw", "agc_firmware", MCU_AGC, 0),
       RegW("release", "FORCE_HOST_RADIO_CTRL", 0),
       RegW("release", "FORCE_HOST_FE_CTRL", 0),
       RegW("release", "FORCE_DEC_FILTER_GAIN", 0),
       RegW("release", "RADIO_SELECT", 0),
       RegW("release", "MCU_RST_0", 0),
       RegW("release", "MCU_RST_1", 0),
       RegW("version", "DBG_AGC_MCU_RAM_ADDR", FW_VERSION_ADDR),
       Step("version", "version", "DBG_AGC_MCU_RAM_DATA", 0, FW_VERSION_AGC),
       RegW("version", "DBG_ARB_MCU_RAM_ADDR", FW_VERSION_ADDR),
       Step("version", "version", "DBG_ARB_MCU_RAM_DATA", 0, FW_VERSION_ARB) >>

\* a load_val that takes pa_gain for dac_gain and dac_gain for pa_gain
LoadValSwapped(e) == U8(e.mix_gain + 16 * e.pa_gain + 64 * e.dac_gain)

\* load_val := mix_gain + (16 * dac_gain) + (64 * pa_gain), on uint8
LoadVal(e) == U8(e.mix_gain + 16 * e.dac_gain + 64 * e.pa_gain)

\* one transaction with the AGC firmware: WAIT, the value, the status read
\* that must give exp
AgcCycle(name, val, exp) ==
    << Tagged("agc", "w", "RADIO_SELECT", AGC_CMD_WAIT, 0, name),
       Tagged("agc", "w", "RADIO_SELECT", val, 0, name),
       Tagged("agc", "agc", "MCU_AGC_STATUS", 0, exp, name) >>

\* body i of "for i := uint8(0); i < s.txgain_lut.size; i++": lut has
\* TX_GAIN_LUT_SIZE_MAX entries, and indexing it past them panics
GainCycle(lut, i) ==
    IF i >= TX_GAIN_LUT_SIZE_MAX
    THEN << Tagged("agc", "w", "RADIO_SELECT", AGC_CMD_WAIT, 0, "gain"),
            Tagged("agc", "panic", "index out of range", i, 0, "gain") >>
    ELSE AgcCycle("gain", LoadVal(lut.lut[i + 1]), 48 + i)

RECURSIVE GainCyclesFrom(_, _)
GainCyclesFrom(lut, i) ==
    IF i >= lut.size THEN <<>>
    ELSE GainCycle(lut, i) \o GainCyclesFrom(lut, i + 1)

\* an abort cycle for every table, full or not
AbortNeededAlways(size) == size <= TX_GAIN_LUT_SIZE_MAX

\* s.txgain_lut.size < TX_GAIN_LUT_SIZE_MAX
AbortNeeded(size) == size < TX_GAIN_LUT_SIZE_MAX

\* the first status, the gain table, the abort, Tx freq MSBs, chan_select,
\* the end of the AGC firmware init, and GPS event capture
StageAgc(st) ==
    << Tagged("agc", "agc", "MCU_AGC_STATUS", 0, 16, "init") >>
    \o GainCyclesFrom(st.txgain_lut, 0)
    \o (IF AbortNeeded(st.txgain_lut.size)
        THEN AgcCycle("abort", AGC_CMD_ABORT, 48) ELSE <<>>)
    \o AgcCycle("txfreq", 3, 51)
    \o AgcCycle("chansel", 0, 48)
    \o AgcCycle("end", RadioSelect(st), 64)
    \o << RegW("gps", "GPS_EN", 1) >>

StartProgram(st) ==
    StageBringUp(st) \o StageRadios(st) \o StageCalibration(st) \o StageDcOffset
    \o Lgw_constant_adjust(st) \o StageDrift(st) \o StageMulti(st)
    \o StageLoraStd(st) \o StageFsk(st) \o StageFirmware(st) \o StageAgc(st)

MaxLutSize == 17   \* the largest txgain_lut.size tried (lut holds 16 entries)

\* the gain table: the two entries ParseConfig sets, then entries that run
\* through the documented widths of the fields (2, 2 and 4 bits)
GainEntry(k) ==
    IF k = 1 THEN [dig_gain |-> 0, pa_gain |-> 2, dac_gain |-> 3, mix_gain |-> 10,
                   rf_power |-> 14]
    ELSE IF k = 2 THEN [dig_gain |-> 0, pa_gain |-> 3, dac_gain |-> 3, mix_gain |-> 14,
                        rf_power |-> 27]
    ELSE [dig_gain |-> 0, pa_gain |-> (k - 1) \div 4, dac_gain |-> (k - 1) % 4,
          mix_gain |-> k - 1, rf_power |-> k]

GainLut(size) ==
    [lut |-> [k \in 1..TX_GAIN_LUT_SIZE_MAX |-> GainEntry(k)], size |-> size]

\* the State ParseConfig builds from a configuration with both radios and
\* all ten channels in use
StartState ==
    [rf_tx_notch_freq |-> <<129000, 0>>,
     rf_tx_enable |-> <<TRUE, FALSE>>,
     rf_enable |-> <<TRUE, TRUE>>,
     rf_rx_freq |-> <<W32(867500000), W32(868500000)>>,
     rf_radio_type |-> <<LGW_RADIO_TYPE_SX1257, LGW_RADIO_TYPE_SX1257>>,
     if_enable |-> <<TRUE, TRUE, TRUE, TRUE, TRUE, TRUE, TRUE, TRUE, TRUE, TRUE>>,
     if_rf_chain |-> <<1, 1, 1, 0, 0, 0, 0, 0, 1, 1>>,
     if_freq |-> <<-400000, -200000, 0, -400000, -200000, 0, 200000, 400000,
                   -200000, 300000>>,
     lora_multi_sfmask |-> [n \in 1..LGW_MULTI_NB |-> DR_LORA_MULTI],
     lora_rx_bw |-> BW_250KHZ,
     lora_rx_sf |-> DR_LORA_SF7,
     lora_rx_ppm_offset |-> FALSE,
     fsk_rx_bw |-> BW_125KHZ,
     fsk_rx_dr |-> 50000,
     fsk_sync_word_size |-> 3,
     fsk_sync_word |-> <<0, 0, 0, 0, 0, 193, 148, 193>>,
     lorawan_public |-> TRUE,
     rf_clkout |-> 0,
     txgain_lut |-> GainLut(2)]

\* the States a call is started with: every size of the gain table of
\* interest, and one departure from StartState at a time
StartStates ==
    {[StartState EXCEPT !.txgain_lut = GainLut(n)] :
        n \in {0, 1, 2, TX_GAIN_LUT_SIZE_MAX - 1, TX_GAIN_LUT_SIZE_MAX, MaxLutSize}}
    \cup {[StartState EXCEPT !.rf_rx_freq[1] = W32(0)],
          [StartState EXCEPT !.rf_rx_freq[1] = W32(1)],
          [StartState EXCEPT !.rf_rx_freq[1] = W32(4)],
          [StartState EXCEPT !.rf_rx_freq[1] = W32(100000000)],
          [StartState EXCEPT !.rf_radio_type = <<LGW_RADIO_TYPE_SX1255,
                                                 LGW_RADIO_TYPE_SX1255>>,
                             !.rf_rx_freq = <<W32(433175000), W32(434175000)>>],
          [StartState EXCEPT !.rf_radio_type[1] = LGW_RADIO_TYPE_NONE],
          [StartState EXCEPT !.rf_enable[2] = FALSE, !.lorawan_public = FALSE,
                             !.if_enable = <<TRUE, FALSE, FALSE, TRUE, TRUE, TRUE,
                                             TRUE, TRUE, FALSE, FALSE>>],
          [StartState EXCEPT !.rf_tx_enable = <<TRUE, TRUE>>,
                             !.lora_rx_bw = BW_125KHZ, !.lora_rx_sf = DR_LORA_SF12,
                             !.lora_rx_ppm_offset = TRUE],
          [StartState EXCEPT !.lora_rx_bw = BW_UNDEFINED],
          [StartState EXCEPT !.lora_rx_sf = DR_UNDEFINED],
          [StartState EXCEPT !.fsk_rx_dr = 0],
          [StartState EXCEPT !.if_rf_chain = <<0, 1, 0, 0, 1, 0, 0, 1, 0, 0>>],
          [StartState EXCEPT !.rf_enable = <<FALSE, FALSE>>],
          [StartState EXCEPT !.rf_enable = <<FALSE, TRUE>>,
                             !.rf_tx_enable = <<TRUE, TRUE>>]}

\* the images Lgw_start loads
Firmware(name) ==
    IF name = "cal_firmware" THEN Slice(<<255, 1>>)
    ELSE IF name = "arb_firmware" THEN Slice(<<0, 1>>)
    ELSE Slice(<<1, 0>>)

\* what the calibration firmware left at address a of its data memory
DcRam(a) == a

\* what the hardware can answer where Lgw_start tests the value read
VersionReads(exp) == {exp, exp + 2, 0}
CalReads == {255, 251, 247, 239, 223, 191, 171, 159, 157, 153, 129, 128, 1}
AgcReads(exp) == {exp, exp + 16, 0}

\* tests on cal_status that take bit 7 alone for a finished calibration
CalStatusErrorFinishedOnly(cal_status, st) ==
    LET bit(m) == (cal_status \div m) % 2 = 1
    IN  IF ~bit(128) THEN "calibration"
        ELSE IF st.rf_enable[1] /\ ~bit(2) THEN "cal_access_a"
        ELSE IF st.rf_enable[2] /\ ~bit(4) THEN "cal_access_b"
        ELSE IF st.rf_enable[1] /\ ~bit(8) THEN "cal_image_a"
        ELSE IF st.rf_enable[2] /\ ~bit(16) THEN "cal_image_b"
        ELSE IF st.rf_enable[1] /\ st.rf_tx_enable[1] /\ ~bit(32) THEN "cal_dc_a"
        ELSE IF st.rf_enable[2] /\ st.rf_tx_enable[2] /\ ~bit(64) THEN "cal_dc_b"
        ELSE "none"

\* tests on cal_status that want the TX DC-offset bit of every TX-enabled
\* chain, enabled or not
CalStatusErrorTxOfDisabled(cal_status, st) ==
    LET bit(m) == (cal_status \div m) % 2 = 1
    IN  IF ~(bit(128) /\ bit(1)) THEN "calibration"
        ELSE IF st.rf_enable[1] /\ ~bit(2) THEN "cal_access_a"
        ELSE IF st.rf_enable[2] /\ ~bit(4) THEN "cal_access_b"
        ELSE IF st.rf_enable[1] /\ ~bit(8) THEN "cal_image_a"
        ELSE IF st.rf_enable[2] /\ ~bit(16) THEN "cal_image_b"
        ELSE IF st.rf_tx_enable[1] /\ ~bit(32) THEN "cal_dc_a"
        ELSE IF st.rf_tx_enable[2] /\ ~bit(64) THEN "cal_dc_b"
        ELSE "none"

\* no test on cal_status at all
CalStatusErrorNever(cal_status, st) == "none"

\* the tests on cal_status
CalStatusError(cal_status, st) ==
    LET bit(m) == (cal_status \div m) % 2 = 1
    IN  IF ~(bit(128) /\ bit(1)) THEN "calibration"
        ELSE IF st.rf_enable[1] /\ ~bit(2) THEN "cal_access_a"
        ELSE IF st.rf_enable[2] /\ ~bit(4) THEN "cal_access_b"
        ELSE IF st.rf_enable[1] /\ ~bit(8) THEN "cal_image_a"
        ELSE IF st.rf_enable[2] /\ ~bit(16) THEN "cal_image_b"
        ELSE IF st.rf_enable[1] /\ st.rf_tx_enable[1] /\ ~bit(32) THEN "cal_dc_a"
        ELSE IF st.rf_enable[2] /\ st.rf_tx_enable[2] /\ ~bit(64) THEN "cal_dc_b"
        ELSE "none"

\* a test on the low four bits of the status only
AgcStatusOkLowBits(read_val, exp) == read_val % 16 = exp % 16

\* read_val != expected, on int32
AgcStatusOk(read_val, exp) == read_val = exp

\* a handle returned whatever the error
StartHandleKept(err) == "file"

\* the *os.File returned: f with a nil error, nil with every error (a panic
\* returns nothing)
StartHandle(err) == IF err = "none" THEN "file" ELSE "nil"

StartPending == [handle |-> "pending", err |-> "pending", status |-> 0]
StartResult(err, status) == [handle |-> StartHandle(err), err |-> err, status |-> status]

StartOp(step, ok, data) ==
    [stage |-> step.stage, op |-> step.kind, reg |-> step.reg, arg |-> step.arg,
     exp |-> step.exp, tag |-> step.tag, ok |-> ok, data |-> data]

NoCal == [f \in {"a_i", "a_q", "b_i", "b_q"} |-> [i \in 1..8 |-> 0]]

InitStart ==
    /\ start_in \in {[s |-> st, mode |-> m, target |-> 0, steps |-> StartProgram(st)] :
                        st \in StartStates, m \in {0, 1}}
    /\ start_pc = "run"
    /\ start_idx = 1
    /\ start_cal = NoCal
    /\ start_ops = <<>>
    /\ start_ret = StartPending

StartStep == start_in.steps[start_idx]

StartAt(kinds) ==
    /\ start_pc = "run"
    /\ start_idx <= Len(start_in.steps)
    /\ StartStep.kind \in kinds

\* "return nil, lgw_spi_mux_mode, spi_mux_target, err"
StartFail(err, status) ==
    /\ start_pc' = "done"
    /\ start_ret' = StartResult(err, status)
    /\ UNCHANGED start_idx

StartGoOn == start_idx' = start_idx + 1 /\ UNCHANGED <<start_pc, start_ret>>

\* Lgw_connect, Lgw_soft_reset or Lgw_reg_w, and the test of err
Lgw_start_transport ==
    /\ StartAt({"connect", "reset", "w"})
    /\ \E ok \in BOOLEAN :
          /\ start_ops' = Append(start_ops, StartOp(StartStep, ok, 0))
          /\ IF ok THEN StartGoOn
             ELSE StartFail(IF StartStep.kind = "connect" THEN "connect"
                            ELSE "transport", 0)
    /\ UNCHANGED <<start_in, start_cal>>
    /\ UNCHANGED <<rxVars, pllVars, fwVars, decVars, parVars>>

\* read_val, err = Lgw_reg_r(.., LGW_DBG_AGC_MCU_RAM_DATA) at the address
\* written just before, and s.cal_offset_x_y[i] = int8(read_val)
Lgw_start_dc_offset ==
    /\ StartAt({"r"})
    /\ \E ok \in BOOLEAN :
          LET val == DcRam(start_ops[Len(start_ops)].arg)
          IN  /\ start_ops' = Append(start_ops, StartOp(StartStep, ok, IF ok THEN val ELSE 0))
              /\ IF ok
                 THEN /\ start_cal' = [start_cal EXCEPT
                                          ![StartStep.tag][StartStep.arg + 1] = I8(val)]
                      /\ StartGoOn
                 ELSE StartFail("transport", 0) /\ UNCHANGED start_cal
    /\ UNCHANGED start_in
    /\ UNCHANGED <<rxVars, pllVars, fwVars, decVars, parVars>>

\* a test that accepts every version from the expected one on
FwVersionAtLeast(fw_version, exp) == fw_version >= exp

\* the negation of "fw_version != FW_VERSION_x"
FwVersionOk(fw_version, exp) == fw_version = exp

\* the read of a firmware version into fw_version := uint8(read_val), and
\* its test
Lgw_start_version ==
    /\ StartAt({"version"})
    /\ \E ok \in BOOLEAN, val \in VersionReads(StartStep.exp) :
          /\ (~ok) => val = 0
          /\ start_ops' = Append(start_ops, StartOp(StartStep, ok, val))
          /\ IF ~ok THEN StartFail("transport", 0)
             ELSE IF ~FwVersionOk(U8(val), StartStep.exp)
             THEN StartFail("version", U8(val))
             ELSE StartGoOn
    /\ UNCHANGED <<start_in, start_cal>>
    /\ UNCHANGED <<rxVars, pllVars, fwVars, decVars, parVars>>

\* get calibration status and test it
Lgw_start_cal_status ==
    /\ StartAt({"cal"})
    /\ \E ok \in BOOLEAN, val \in CalReads \cup {0} :
          /\ (~ok) <=> val = 0
          /\ start_ops' = Append(start_ops, StartOp(StartStep, ok, val))
          /\ IF ~ok THEN StartFail("transport", 0)
             ELSE IF CalStatusError(U8(val), start_in.s) # "none"
             THEN StartFail(CalStatusError(U8(val), start_in.s), U8(val))
             ELSE StartGoOn
    /\ UNCHANGED <<start_in, start_cal>>
    /\ UNCHANGED <<rxVars, pllVars, fwVars, decVars, parVars>>

\* a read of MCU_AGC_STATUS and its test; the error carries uint8(read_val)
Lgw_start_agc_status ==
    /\ StartAt({"agc"})
    /\ \E ok \in BOOLEAN, val \in AgcReads(StartStep.exp) :
          /\ (~ok) => val = 0
          /\ start_ops' = Append(start_ops, StartOp(StartStep, ok, val))
          /\ IF ~ok THEN StartFail("transport", 0)
             ELSE IF ~AgcStatusOk(val, StartStep.exp) THEN StartFail("agc_init", U8(val))
             ELSE StartGoOn
    /\ UNCHANGED <<start_in, start_cal>>
    /\ UNCHANGED <<rxVars, pllVars, fwVars, decVars, parVars>>

\* a test of the configuration: no register is accessed
Lgw_start_config ==
    /\ StartAt({"cfg"})
    /\ IF StartStep.arg = 1 THEN StartFail(StartStep.reg, 0) ELSE StartGoOn
    /\ UNCHANGED <<start_in, start_cal, start_ops>>
    /\ UNCHANGED <<rxVars, pllVars, fwVars, decVars, parVars>>

\* a run-time panic: the call does not return
Lgw_start_panic ==
    /\ StartAt({"panic"})
    /\ start_pc' = "done"
    /\ start_ret' = [handle |-> "nil", err |-> "panic", status |-> 0]
    /\ UNCHANGED <<start_in, start_idx, start_cal, start_ops>>
    /\ UNCHANGED <<rxVars, pllVars, fwVars, decVars, parVars>>

\* err = Lgw_setup_sx125x(f, lgw_spi_mux_mode, spi_mux_target, chain,
\* s.rf_clkout, s.rf_enable[chain], s.rf_radio_type[chain], s.rf_rx_freq[chain])
Lgw_start_setup_call ==
    /\ StartAt({"setup"})
    /\ start_pc' = "setup"
    /\ pll_in' = [mode |-> start_in.mode, target |-> start_in.target,
                  rf_chain |-> StartStep.arg, rf_clkout |-> start_in.s.rf_clkout,
                  rf_radio_type |-> start_in.s.rf_radio_type[StartStep.arg + 1],
                  freq_hz |-> start_in.s.rf_rx_freq[StartStep.arg + 1]]
    /\ pll_pc' = "idle"
    /\ pll_idx' = 0
    /\ cpt_attempts' = 0
    /\ pll_ops' = <<>>
    /\ pll_lock' = <<>>
    /\ pll_ret' = "pending"
    /\ UNCHANGED <<start_in, start_idx, start_cal, start_ops, start_ret>>
    /\ UNCHANGED <<rxVars, fwVars, decVars, parVars>>

\* the return of Lgw_setup_sx125x: its error is replaced by "Failed to setup
\* sx125x radio for RF chain n"
Lgw_start_setup_return ==
    /\ start_pc = "setup"
    /\ pll_pc = "done"
    /\ start_ops' = Append(start_ops, StartOp(StartStep, pll_ret = "ok", 0))
    /\ IF pll_ret = "ok"
       THEN start_pc' = "run" /\ start_idx' = start_idx + 1 /\ UNCHANGED start_ret
       ELSE StartFail("setup", 0)
    /\ pll_in' = <<>>
    /\ pll_pc' = "off"
    /\ pll_idx' = 0
    /\ cpt_attempts' = 0
    /\ pll_ops' = <<>>
    /\ pll_lock' = <<>>
    /\ pll_ret' = "pending"
    /\ UNCHANGED <<start_in, start_cal>>
    /\ UNCHANGED <<rxVars, fwVars, decVars, parVars>>

\* err = Load_firmware(f, target, lgw_spi_mux_mode, spi_mux_target, image)
Lgw_start_fw_call ==
    /\ StartAt({"fw"})
    /\ start_pc' = "fw"
    /\ fw_in' = [target |-> StartStep.arg, firmware |-> Firmware(StartStep.reg)]
    /\ fw_pc' = "idle"
    /\ fw_ops' = <<>>
    /\ fw_check' = NilSlice
    /\ fw_ret' = "pending"
    /\ UNCHANGED <<start_in, start_idx, start_cal, start_ops, start_ret>>
    /\ UNCHANGED <<rxVars, pllVars, decVars, parVars>>

\* the return of Load_firmware: its error is returned as it is
Lgw_start_fw_return ==
    /\ start_pc = "fw"
    /\ fw_pc = "done"
    /\ start_ops' = Append(start_ops, StartOp(StartStep, fw_ret = "ok", 0))
    /\ IF fw_ret = "ok"
       THEN start_pc' = "run" /\ start_idx' = start_idx + 1 /\ UNCHANGED start_ret
       ELSE StartFail(fw_ret, 0)
    /\ fw_in' = <<>>
    /\ fw_pc' = "off"
    /\ fw_ops' = <<>>
    /\ fw_check' = NilSlice
    /\ fw_ret' = "pending"
    /\ UNCHANGED <<start_in, start_cal>>
    /\ UNCHANGED <<rxVars, pllVars, decVars, parVars>>

\* "return f, lgw_spi_mux_mode, spi_mux_target, nil"
Lgw_start_return ==
    /\ start_pc = "run"
    /\ start_idx > Len(start_in.steps)
    /\ start_pc' = "done"
    /\ start_ret' = StartResult("none", 0)
    /\ UNCHANGED <<start_in, start_idx, start_cal, start_ops>>
    /\ UNCHANGED <<rxVars, pllVars, fwVars, decVars, parVars>>

NextStart ==
    \/ Lgw_start_transport
    \/ Lgw_start_dc_offset
    \/ Lgw_start_version
    \/ Lgw_start_cal_status
    \/ Lgw_start_agc_status
    \/ Lgw_start_config
    \/ Lgw_start_panic
    \/ Lgw_start_setup_call
    \/ Lgw_start_setup_return
    \/ Lgw_start_fw_call
    \/ Lgw_start_fw_return
    \/ Lgw_start_return
    \/ NextPll
    \/ NextFw

(***************************************************************************)
(* Two calls of Lgw_receive on one concentrator                            *)
(* Lgw_receive takes no lock, and the package declares none: two goroutines *)
(* that call it with the same *os.File take turns on the bus, one register  *)
(* access at a time.  The packets are well formed and numbered; what a      *)
(* caller keeps of an iteration is the packet whose header gave sz and      *)
(* stat_fifo and the packet whose payload and metadata it was handed.       *)
(***************************************************************************)
MaxParFifo == 2   \* packets in the FIFO when the two calls start

Callers == {1, 2}

CallerIdle ==
    [pc |-> "idle", nb_pkt_fetch |-> 0, hdr |-> 0, pkt_data |-> <<>>,
     err |-> "pending"]

BusOp(who, op, pkt, ok) == [who |-> who, op |-> op, pkt |-> pkt, ok |-> ok]

\* the packet the concentrator presents: the first of the FIFO, 0 for none
Current(f) == IF f = <<>> THEN 0 ELSE Head(f)

InitPar ==
    /\ par_sent \in {[i \in 1..n |-> i] : n \in 0..MaxParFifo}
    /\ par_fifo = par_sent
    /\ par_call = [p \in Callers |-> CallerIdle]
    /\ par_log = <<>>
    /\ par_faults = MaxFaults

\* one access of caller p to the bus
BusAccess(p, op, ok) ==
    /\ ok \/ par_faults > 0
    /\ par_faults' = IF ok THEN par_faults ELSE par_faults - 1
    /\ par_log' = Append(par_log, BusOp(p, op, IF ok THEN Current(par_fifo) ELSE 0, ok))

\* "return nil, err"
CallerFailed(c, e) == [c EXCEPT !.pc = "done", !.pkt_data = <<>>, !.err = e]

\* pkt_data := make([]Lgw_pkt_rx_s, 16)
Caller_call(p) ==
    /\ par_call[p].pc = "idle"
    /\ par_call' = [par_call EXCEPT ![p].pc = "hdr"]
    /\ UNCHANGED <<par_sent, par_fifo, par_log, par_faults>>
    /\ UNCHANGED <<rxVars, pllVars, fwVars, decVars, startVars>>

\* Lgw_reg_rb(LGW_RX_PACKET_DATA_FIFO_NUM_STORED, 5) and the checks on it
Caller_header(p) ==
    /\ par_call[p].pc = "hdr"
    /\ \E ok \in BOOLEAN :
          /\ BusAccess(p, "hdr", ok)
          /\ par_call' = [par_call EXCEPT ![p] =
                IF ~ok THEN CallerFailed(@, "transport")
                ELSE IF Len(par_fifo) = 0 THEN [@ EXCEPT !.pc = "done", !.err = "none"]
                ELSE IF CountInvalid(Len(par_fifo)) THEN CallerFailed(@, "fifo")
                ELSE [@ EXCEPT !.pc = "burst", !.hdr = Head(par_fifo)]]
    /\ UNCHANGED <<par_sent, par_fifo>>
    /\ UNCHANGED <<rxVars, pllVars, fwVars, decVars, startVars>>

\* Lgw_reg_rb(LGW_RX_DATA_BUF_DATA, sz+RX_METADATA_NB) and the decoding into
\* pkt_data[nb_pkt_fetch]
Caller_burst(p) ==
    /\ par_call[p].pc = "burst"
    /\ \E ok \in BOOLEAN :
          /\ BusAccess(p, "burst", ok)
          /\ par_call' = [par_call EXCEPT ![p] =
                IF ~ok THEN CallerFailed(@, "transport")
                ELSE [@ EXCEPT !.pc = "adv",
                               !.pkt_data = Append(@, [hdr |-> par_call[p].hdr,
                                                       data |-> Current(par_fifo)])]]
    /\ UNCHANGED <<par_sent, par_fifo>>
    /\ UNCHANGED <<rxVars, pllVars, fwVars, decVars, startVars>>

\* err = Lgw_reg_w(LGW_RX_PACKET_DATA_FIFO_NUM_STORED, 0), whose err is not
\* read, then nb_pkt_fetch++ and the loop test
Caller_advance(p) ==
    /\ par_call[p].pc = "adv"
    /\ \E ok \in BOOLEAN :
          /\ BusAccess(p, "adv", ok)
          /\ par_fifo' = IF ok /\ par_fifo # <<>> THEN Tail(par_fifo) ELSE par_fifo
          /\ par_call' = [par_call EXCEPT ![p] =
                IF LoopTest(@.nb_pkt_fetch + 1)
                THEN [@ EXCEPT !.pc = "hdr", !.nb_pkt_fetch = @ + 1]
                ELSE [@ EXCEPT !.pc = "done", !.nb_pkt_fetch = @ + 1, !.err = "none"]]
    /\ UNCHANGED par_sent
    /\ UNCHANGED <<rxVars, pllVars, fwVars, decVars, startVars>>

NextPar ==
    \E p \in Callers :
        \/ Caller_call(p)
        \/ Caller_header(p)
        \/ Caller_burst(p)
        \/ Caller_advance(p)

(***************************************************************************)
(* Specifications                                                          *)
(***************************************************************************)
IdleRx ==
    /\ s = CHOOSE c \in StateConfigs : c.lora_rx_bw = BW_250KHZ
    /\ fifo = <<>>
    /\ rx_pc = "off"
    /\ nb_pkt_fetch = 0
    /\ pkt_data = <<>>
    /\ rx_sz = 0
    /\ stat_fifo = 0
    /\ rx_corr = <<>>
    /\ rx_ops = <<>>
    /\ rx_faults = 0
    /\ rx_ret = RxPending

IdlePll ==
    /\ pll_in = <<>>
    /\ pll_pc = "off"
    /\ pll_idx = 0
    /\ cpt_attempts = 0
    /\ pll_ops = <<>>
    /\ pll_lock = <<>>
    /\ pll_ret = "pending"

IdleFw ==
    /\ fw_in = <<>>
    /\ fw_pc = "off"
    /\ fw_ops = <<>>
    /\ fw_check = NilSlice
    /\ fw_ret = "pending"

IdleDec ==
    /\ dec_in = <<>>
    /\ dec_out = NotDecoded

IdleStart ==
    /\ start_in = <<>>
    /\ start_pc = "off"
    /\ start_idx = 0
    /\ start_cal = NoCal
    /\ start_ops = <<>>
    /\ start_ret = StartPending

IdlePar ==
    /\ par_sent = <<>>
    /\ par_fifo = <<>>
    /\ par_call = [p \in Callers |-> [CallerIdle EXCEPT !.pc = "off"]]
    /\ par_log = <<>>
    /\ par_faults = 0

Init == InitRx /\ IdlePll /\ IdleFw /\ IdleDec /\ IdleStart /\ IdlePar
Next == NextRx
Spec == Init /\ [][Next]_vars

InitSetup == IdleRx /\ InitPll /\ IdleFw /\ IdleDec /\ IdleStart /\ IdlePar
SpecPll == InitSetup /\ [][NextPll]_vars

InitLoad == IdleRx /\ IdlePll /\ InitFw /\ IdleDec /\ IdleStart /\ IdlePar
SpecFw == InitLoad /\ [][NextFw]_vars

InitDecode == IdleRx /\ IdlePll /\ IdleFw /\ InitDec /\ IdleStart /\ IdlePar
SpecDec == InitDecode /\ [][NextDec]_vars

\* the decoding of one packet over the CRC status byte
InitStatus == IdleRx /\ IdlePll /\ IdleFw /\ InitTrailer /\ IdleStart /\ IdlePar
SpecTrailer == InitStatus /\ [][NextDec]_vars

InitBringUp == IdleRx /\ IdlePll /\ IdleFw /\ IdleDec /\ InitStart /\ IdlePar
SpecStart == InitBringUp /\ [][NextStart]_vars

\* one call on a State, of Lgw_start or of Lgw_receive
InitCalls == Init \/ InitBringUp
NextCalls == Next \/ NextStart
SpecCalls == InitCalls /\ [][NextCalls]_vars

\* two concurrent calls of Lgw_receive
InitTwoCalls == IdleRx /\ IdlePll /\ IdleFw /\ IdleDec /\ IdleStart /\ InitPar
SpecPar == InitTwoCalls /\ [][NextPar]_vars

(***************************************************************************)
(* Views of a call of Lgw_receive                                          *)
(***************************************************************************)
RxDone == rx_pc = "done"
RxReturned == rx_pc = "done" /\ rx_ret.err # "panic"
IsHeaderRead(o) == o.op = "rb" /\ o.reg = "RX_PACKET_DATA_FIFO_NUM_STORED"
IsBurstRead(o) == o.op = "rb" /\ o.reg = "RX_DATA_BUF_DATA"
IsAdvance(o) == o.op = "w" /\ o.reg = "RX_PACKET_DATA_FIFO_NUM_STORED"
HeaderReads == SelectSeq(rx_ops, IsHeaderRead)
BurstReads == SelectSeq(rx_ops, IsBurstRead)
Advances == SelectSeq(rx_ops, IsAdvance)
\* the packet the k-th FIFO entry read in this call decodes to
DecodedFromFifo(k) ==
    DecodePacket(BurstReads[k].arg - RX_METADATA_NB, HeaderReads[k].data[4],
                 BurstReads[k].data, s).pkt
\* trailer byte i of the k-th entry read
TrailerByte(k, i) == BurstReads[k].data[BurstReads[k].arg - RX_METADATA_NB + i + 1]

(***************************************************************************)
(* Claims about Lgw_receive                                                *)
(***************************************************************************)

\* C1: when the first header read reports a packet count of 0, Lgw_receive
\* returns an empty packet list (zero entries) and no error, and has made no
\* burst read of packet data and no FIFO-advance write.
C1_EmptyFifoEmptyList ==
    (RxDone /\ Len(rx_ops) >= 1 /\ rx_ops[1].ok /\ rx_ops[1].data[1] = 0)
        => /\ rx_ret.err = "none"
           /\ Len(rx_ret.list) = 0
           /\ Len(BurstReads) = 0
           /\ Len(Advances) = 0

\* C2: when Lgw_receive returns without error after draining n packets, the
\* list it returns has exactly n entries, and entry k is the packet decoded
\* from the k-th FIFO entry read in this call.
C2_ListIsDrainedPackets ==
    (RxDone /\ rx_ret.err = "none")
        => /\ Len(rx_ret.list) = nb_pkt_fetch
           /\ \A k \in 1..nb_pkt_fetch : rx_ret.list[k] = DecodedFromFifo(k)

\* C6: for a LoRa packet with sf in 7..12 the timestamp correction equals
\* delay_x + delay_y + delay_z with delay_y and delay_z evaluated in ordinary
\* (non-wrapping) integer arithmetic; 2^(sf-1)*(sf+1) is not reduced modulo 256.
C6_CorrectionIsSpecFormula ==
    \A k \in 1..Len(rx_corr) :
        LET ifmod == LGW_IFMODEM_CONFIG[TrailerByte(k, 0) + 1]
            sf == SfOf(TrailerByte(k, 1))
            cr == CrOf(TrailerByte(k, 1))
            sz == BurstReads[k].arg - RX_METADATA_NB
            crc_en == CrcEnOf(HeaderReads[k].data[4])
            bw == IF ifmod = IF_LORA_MULTI THEN BW_125KHZ ELSE s.lora_rx_bw
            ppm == IF SET_PPM_ON(bw, DatarateOf(sf)) THEN 1 ELSE 0
            bw_pow == BwPow(ifmod, s.lora_rx_bw)
            fits == 2 * (sz + 2 * crc_en) - (sf - 7) <= 0
        IN  (ifmod \in {IF_LORA_MULTI, IF_LORA_STD} /\ sf \in 7..12)
              => rx_corr[k] =
                   DelayX(ifmod, s.lora_rx_bw)
                   + (IF fits
                      THEN ((2 ^ (sf - 1)) * (sf + 1) + 3 * (2 ^ (sf - 4))) \div bw_pow
                      ELSE ((2 ^ (sf - 1)) * (sf + 1) + (4 - ppm) * (2 ^ (sf - 4)))
                              \div bw_pow)
                   + (IF fits
                      THEN (32 * (2 * (sz + 2 * crc_en) + 5)) \div bw_pow
                      ELSE ((16 + 4 * cr)
                             * (((2 * (sz + 2 * crc_en) - sf + 6) % (sf - 2 * ppm)) + 1))
                              \div bw_pow)

\* C8: for every packet Lgw_receive returns, Count_us is (raw - correction)
\* mod 2^32, raw being the little-endian value of trailer bytes 6..9: adding
\* the correction to Count_us modulo 2^32 gives raw back.
C8_CountUsIsRawMinusCorrection ==
    (RxDone /\ rx_ret.err = "none")
        => \A k \in 1..Len(rx_corr) :
              W32Add(rx_ret.list[k].Count_us, W32(rx_corr[k]))
                = <<TrailerByte(k, 8) + 256 * TrailerByte(k, 9),
                    TrailerByte(k, 6) + 256 * TrailerByte(k, 7)>>

\* C8 witness: a returned packet whose raw timestamp is smaller than its
\* correction, so that Count_us wrapped around
C8_Witness ==
    /\ RxDone /\ rx_ret.err = "none"
    /\ \E k \in 1..Len(rx_corr) :
          /\ TrailerByte(k, 8) = 0 /\ TrailerByte(k, 9) = 0
          /\ TrailerByte(k, 6) + 256 * TrailerByte(k, 7) < rx_corr[k]
          /\ rx_ret.list[k].Count_us[1] = 65535

\* C9 as claimed: a decoding failure (FIFO count above 16, IF chain >= 10) at
\* packet k+1 returns exactly the k packets decoded before it, with the error.
C9_PartialResultsOnError ==
    (RxDone /\ rx_ret.err \in {"fifo", "ifchain"})
        => /\ Len(rx_ret.list) = nb_pkt_fetch
           /\ \A k \in 1..nb_pkt_fetch : rx_ret.list[k] = DecodedFromFifo(k)

\* C9 amended: a decoding failure (FIFO count above 16, IF chain >= 10) at
\* packet k+1 returns the error and a nil list: the k packets decoded before
\* it are not returned.
C9_NilListOnError ==
    (RxDone /\ rx_ret.err \in {"fifo", "ifchain"})
        => rx_ret.isnil /\ Len(rx_ret.list) = 0

\* C9 witness: an invalid IF chain met after two packets were decoded
C9_Witness ==
    /\ RxDone /\ rx_ret.err = "ifchain"
    /\ nb_pkt_fetch = 2 /\ Len(rx_corr) = 2 /\ Len(Advances) = 2

\* C10: every failing transport call of Lgw_receive (header read, burst read,
\* FIFO-advance write) makes the call return an error at once: it is the last
\* register access of the call.
C10_TransportErrorReturnsAtOnce ==
    \A i \in 1..Len(rx_ops) :
        ~rx_ops[i].ok
          => i = Len(rx_ops) /\ RxDone /\ rx_ret.err = "transport"

\* C11: a call of Lgw_receive makes at most 16 loop iterations whatever the
\* headers report: at most 16 header reads, at most 16 burst reads, at most
\* 16 advance writes (so at most 48 register accesses, after which it has
\* returned), and it returns at most 16 packets.
C11_AtMostSixteenIterations ==
    /\ nb_pkt_fetch <= RX_MAX_PKT
    /\ rx_pc \in {"hdr", "burst", "adv"} => nb_pkt_fetch < RX_MAX_PKT
    /\ Len(HeaderReads) <= 16 /\ Len(BurstReads) <= 16 /\ Len(Advances) <= 16
    /\ RxDone => Len(rx_ret.list) <= 16

\* C11 witness: the call returned after 16 iterations while the FIFO still
\* holds a packet
C11_Witness ==
    /\ RxDone /\ rx_ret.err = "none"
    /\ Len(HeaderReads) = 16 /\ Len(BurstReads) = 16 /\ Len(Advances) = 16
    /\ fifo # <<>>

\* C12: a header whose packet count (byte 0) exceeds 16 makes Lgw_receive fail
\* with the corrupt-FIFO error; that header read is the last register access
\* of the call: no burst read and no advance write follows it.
C12_CorruptFifoError ==
    \A i \in 1..Len(rx_ops) :
        (IsHeaderRead(rx_ops[i]) /\ rx_ops[i].ok /\ rx_ops[i].data[1] > 16)
          => /\ i = Len(rx_ops)
             /\ RxDone /\ rx_ret.err = "fifo"
             /\ Len(BurstReads) = Len(HeaderReads) - 1
             /\ Len(Advances) = Len(HeaderReads) - 1

\* C12 witness: a count above 16 read after two packets were drained
C12_Witness ==
    /\ RxDone /\ rx_ret.err = "fifo"
    /\ Len(HeaderReads) = 3 /\ HeaderReads[3].data[1] > LGW_PKT_FIFO_SIZE
    /\ Len(BurstReads) = 2 /\ Len(Advances) = 2

\* C13: a packet whose trailer byte 0 is 10 or more makes Lgw_receive fail with
\* the invalid-IF-chain error, the test coming before any use of the value
\* as an index (no run-time panic); every packet returned has If_chain < 10.
C13_InvalidIfChainError ==
    /\ \A k \in 1..Len(BurstReads) :
          (BurstReads[k].ok /\ TrailerByte(k, 0) >= LGW_IF_CHAIN_NB)
            => /\ k = Len(BurstReads)
               /\ RxDone /\ rx_ret.err = "ifchain"
               /\ rx_ops[Len(rx_ops)] = BurstReads[k]
    /\ (RxDone /\ rx_ret.err = "none")
          => \A k \in 1..Len(rx_ret.list) : rx_ret.list[k].If_chain < LGW_IF_CHAIN_NB

\* C13 witness: trailer byte 0 is 10 or more in the third packet of a call
C13_Witness ==
    /\ RxDone /\ rx_ret.err = "ifchain"
    /\ Len(BurstReads) = 3 /\ TrailerByte(3, 0) >= LGW_IF_CHAIN_NB
    /\ Len(Advances) = 2

(***************************************************************************)
(* Claims about Lgw_setup_sx125x                                           *)
(***************************************************************************)
PllDone == pll_pc = "done"
IsLockRead(o) == o.op = "r" /\ o.addr = 17

\* C3: Lgw_setup_sx125x returns a PLL-lock-timeout error when the lock bit of
\* register 0x11 was read clear on each of the 5 polling attempts; it never
\* returns success without having read the lock bit set; it never makes more
\* than 5 attempts.
C3_LockTimeoutAfterFiveClearReads ==
    /\ (PllDone /\ Len(pll_lock) = PLL_LOCK_MAX_ATTEMPTS
          /\ \A i \in 1..Len(pll_lock) : pll_lock[i] = 0)
         => pll_ret = "pll_lock_timeout"
    /\ (PllDone /\ pll_ret = "ok") => \E i \in 1..Len(pll_lock) : pll_lock[i] = 1
    /\ Len(pll_lock) <= PLL_LOCK_MAX_ATTEMPTS

\* C4: Lgw_setup_sx125x returns success at the first polling attempt on which
\* the lock bit is read set: that status read is the last access of the call
\* (no oscillator-enable write, RX-enable write or status read follows it).
C4_SuccessAtFirstLock ==
    \A i \in 1..Len(pll_lock) :
        pll_lock[i] = 1
          => /\ i = Len(pll_lock)
             /\ PllDone /\ pll_ret = "ok"
             /\ IsLockRead(pll_ops[Len(pll_ops)])
             /\ Len(SelectSeq(pll_ops, IsLockRead)) = i

\* C4 witness: the lock bit read clear twice and set on the third attempt
C4_Witness ==
    /\ PllDone /\ pll_ret = "ok"
    /\ pll_lock = <<0, 0, 1>>
    /\ cpt_attempts = 2

(***************************************************************************)
(* Claims about Load_firmware                                              *)
(***************************************************************************)
FwDone == fw_pc = "done"
FwAllOk == \A i \in 1..Len(fw_ops) : fw_ops[i].ok
FwVerified == \E i \in 1..Len(fw_ops) : fw_ops[i].op = "rb"

DecodedLora == dec_out.kind = "ok" /\ dec_in.modem[1] \in {0, 8}

\* C7: the timestamp correction of a LoRa packet is never negative (sf 6..12,
\* bw_pow > 0, every coderate 0..7, payload size 0..255, crc_en and ppm 0 or
\* 1) and is exactly 0 when sf is outside 6..12.
C7_CorrectionNonNegative ==
    DecodedLora
        => /\ dec_out.corr >= 0
           /\ (dec_in.sf < 6 \/ dec_in.sf > 12) => dec_out.corr = 0

\* C7 witness: an SF12 packet of 255 bytes with CRC on the 125 kHz
\* stand-alone modem, whose correction is positive
C7_Witness ==
    /\ DecodedLora
    /\ dec_in.sf = 12 /\ dec_in.sz = 255 /\ dec_in.stat = 5
    /\ dec_in.modem = <<8, BW_125KHZ>>
    /\ dec_out.corr > 64

(***************************************************************************)
(* Claims about the PLL frequency registers                                *)
(***************************************************************************)
\* shift s of the radio type: 7 for the SX1255, 8 for the SX1257
ShiftOf(type) == IF type = LGW_RADIO_TYPE_SX1255 THEN 7 ELSE 8

\* <<w / d, w % d>> of a uint32 by ordinary integer division: w is split at
\* 2^31, and 2^31 = 2 * 2^30
QuotRem(w, d) ==
    LET top == w[1] \div 32768
        a == (w[1] % 32768) * 65536 + w[2]
        r == (a % d) + top * 2 * (1073741824 % d)
    IN  <<(a \div d) + top * 2 * (1073741824 \div d) + (r \div d), r % d>>

PllWritesTo(a) == {i \in 1..Len(pll_ops) : pll_ops[i].op = "w" /\ pll_ops[i].addr = a}
PllByte(a) == pll_ops[CHOOSE i \in PllWritesTo(a) : TRUE].data

\* C14 as claimed: the bytes written to 0x01, 0x02, 0x03 are integer_part =
\* freq_hz / (15625 << s) and the high and low byte of fractional_part =
\* ((freq_hz mod (15625 << s)) << (s+1)) / 15625, s = 7 (SX1255), 8 (SX1257).
C14_PllBytesShiftPlus1 ==
    \A i \in 1..Len(pll_ops) :
        LET o == pll_ops[i]
            sh == ShiftOf(pll_in.rf_radio_type)
            qr == QuotRem(pll_in.freq_hz, 15625 * (2 ^ sh))
            frac == (qr[2] * (2 ^ (sh + 1))) \div 15625
        IN  o.op = "w"
              => /\ o.addr = 1 => o.data = qr[1]
                 /\ o.addr = 2 => o.data = (frac \div 256) % 256
                 /\ o.addr = 3 => o.data = frac % 256

\* C14 amended: the bytes written to 0x01, 0x02, 0x03 are the low 8 bits of
\* integer_part = freq_hz / (15625 << s) and the high and low byte of
\* fractional_part = ((freq_hz mod (15625 << s)) << (16-s)) / 15625
\* (a shift of 9 for the SX1255, s = 7, and of 8 for the SX1257, s = 8).
C14_PllBytesShift16MinusS ==
    \A i \in 1..Len(pll_ops) :
        LET o == pll_ops[i]
            sh == ShiftOf(pll_in.rf_radio_type)
            qr == QuotRem(pll_in.freq_hz, 15625 * (2 ^ sh))
            frac == (qr[2] * (2 ^ (16 - sh))) \div 15625
        IN  o.op = "w"
              => /\ o.addr = 1 => o.data = qr[1] % 256
                 /\ o.addr = 2 => o.data = (frac \div 256) % 256
                 /\ o.addr = 3 => o.data = frac % 256

\* C14 witness: the three bytes written for the largest frequency on an
\* SX1257, whose integer part does not fit a byte
C14_Witness ==
    /\ pll_in.rf_radio_type = LGW_RADIO_TYPE_SX1257
    /\ pll_in.freq_hz = <<65535, 65535>>
    /\ PllWritesTo(1) # {} /\ PllWritesTo(2) # {} /\ PllWritesTo(3) # {}
    /\ PllByte(1) = 49

\* C15: for both radio types and every frequency whose integer part fits in
\* 8 bits, the frequency decoded from the bytes written to 0x01, 0x02, 0x03
\* (integer part times 15625 << s plus the 16 bit fraction times the PLL
\* step 15625 / 2^(16-s)) is within one PLL step of the target frequency.
C15_PllBytesDecodeToTarget ==
    LET sh == ShiftOf(pll_in.rf_radio_type)
        d == 15625 * (2 ^ sh)
        f == pll_in.freq_hz[1] * 65536 + pll_in.freq_hz[2]
        decoded == PllByte(1) * d
                   + ((PllByte(2) * 256 + PllByte(3)) * 15625) \div (2 ^ (16 - sh))
        step == (15625 + (2 ^ (16 - sh)) - 1) \div (2 ^ (16 - sh))
    IN  (/\ PllWritesTo(3) # {}
         /\ pll_in.freq_hz[1] < 32768 /\ f < 256 * d)
          => (f - decoded >= -step /\ f - decoded <= step)

\* C15 witness: the bytes written for the last frequency an SX1255 can be
\* set to, 511999999 Hz
C15_Witness ==
    /\ pll_in.rf_radio_type = LGW_RADIO_TYPE_SX1255
    /\ pll_in.freq_hz = W32(511999999)
    /\ PllWritesTo(3) # {}
    /\ PllByte(1) = 255 /\ PllByte(2) = 255 /\ PllByte(3) = 255

(***************************************************************************)
(* Claims about Lgw_start                                                  *)
(***************************************************************************)
StartDone == start_pc = "done"
StartReturned == StartDone /\ start_ret.err # "panic"
StartFailed == StartReturned /\ start_ret.err # "none"
IsRadioSelectWrite(o) == o.op = "w" /\ o.reg = "RADIO_SELECT"
IsGpsEnable(o) == o.op = "w" /\ o.reg = "GPS_EN"
InAgc(o) == o.stage = "agc"

\* the accesses of the AGC handshake, in order
AgcOps == SelectSeq(start_ops, InAgc)

\* C16: the transport calls and nested calls of Lgw_start follow the stage
\* order connect, reset, gate clocks, power radios, synthesizer setup of chain
\* 0 then 1, GPIO, enable clocks, calibration, DC-offset read-back, constant
\* adjust, drift registers, IF/modem programming, firmware load, release,
\* version check, AGC handshake, GPS enable, never going back to an earlier
\* stage; the accesses of Lgw_setup_sx125x and Load_firmware happen inside
\* their stage; a failing step is the last one, and the call then returns an
\* error and a nil handle; a non-nil handle is returned only when every stage
\* was gone through and the last access, the GPS-enable write, succeeded.
C16_StagesInOrderErrorsStop ==
    /\ \A i \in 1..(Len(start_ops) - 1) :
          StageNo(start_ops[i].stage) <= StageNo(start_ops[i + 1].stage)
    /\ pll_ops # <<>>
          => /\ start_pc = "setup"
             /\ StartStep.stage = (IF pll_in.rf_chain = 0 THEN "setup0" ELSE "setup1")
             /\ \A i \in 1..Len(start_ops) :
                   StageNo(start_ops[i].stage) < StageNo(StartStep.stage)
    /\ fw_ops # <<>>
          => /\ start_pc = "fw"
             /\ StartStep.stage \in {"cal", "fwload"}
             /\ \A i \in 1..Len(start_ops) :
                   StageNo(start_ops[i].stage) <= StageNo(StartStep.stage)
    /\ \A i \in 1..Len(start_ops) :
          ~start_ops[i].ok
            => /\ i = Len(start_ops)
               /\ StartFailed
               /\ start_ret.handle = "nil"
    /\ StartFailed => start_ret.handle = "nil"
    /\ (StartDone /\ start_ret.handle # "nil")
          => /\ start_ret.err = "none"
             /\ \A k \in 1..Len(StartStages) :
                   \E i \in 1..Len(start_ops) : start_ops[i].stage = StartStages[k]
             /\ \A i \in 1..Len(start_ops) : start_ops[i].ok
             /\ IsGpsEnable(start_ops[Len(start_ops)])

\* C16 witness: a call that went through every stage and returned the handle
C16_Witness ==
    /\ StartDone /\ start_ret.handle = "file" /\ start_ret.err = "none"
    /\ IsGpsEnable(start_ops[Len(start_ops)])
    /\ start_ops[1].op = "connect"

\* C17: when rf_rx_freq[0] is 0, Lgw_start fails with the configuration error
\* before any hardware access: no connect, register access, firmware load or
\* calibration precedes the error.
C17_MissingFrequencyFailsBeforeIo ==
    (StartDone /\ start_ret.err = "rf_rx_freq") => start_ops = <<>>

\* C18: with a gain table of n <= 16 entries, once the handshake has reached
\* the TX-frequency-MSB cycle it consists of the first status read, n cycles
\* WAIT / value / status for the gain entries, then exactly one cycle
\* WAIT / ABORT / status 0x30 when n < 16 and none when n = 16, and then the
\* cycle that writes 3.
C18_AbortCycleOnlyBelowSixteen ==
    LET n == start_in.s.txgain_lut.size
        extra == IF n < 16 THEN 3 ELSE 0
    IN  (start_pc # "off" /\ n <= 16 /\ Len(AgcOps) >= 3 * n + extra + 3)
          => /\ \A i \in 2..(3 * n + 1) :
                   /\ AgcOps[i].tag = "gain"
                   /\ AgcOps[i].ok
                   /\ i % 3 = 2 => IsRadioSelectWrite(AgcOps[i]) /\ AgcOps[i].arg = 16
                   /\ i % 3 = 0 => IsRadioSelectWrite(AgcOps[i])
                   /\ i % 3 = 1 => AgcOps[i].op = "agc"
             /\ n < 16
                   => /\ IsRadioSelectWrite(AgcOps[3 * n + 2])
                      /\ AgcOps[3 * n + 2].arg = 16
                      /\ IsRadioSelectWrite(AgcOps[3 * n + 3])
                      /\ AgcOps[3 * n + 3].arg = 17
                      /\ AgcOps[3 * n + 4].op = "agc"
                      /\ AgcOps[3 * n + 4].data = 48
             /\ IsRadioSelectWrite(AgcOps[3 * n + extra + 2])
             /\ AgcOps[3 * n + extra + 2].arg = 16
             /\ IsRadioSelectWrite(AgcOps[3 * n + extra + 3])
             /\ AgcOps[3 * n + extra + 3].arg = 3
             /\ AgcOps[3 * n + extra + 3].tag = "txfreq"

\* C18 witness: a full table of 16 entries, the write of 3 following the 16th
\* gain cycle at once
C18_Witness ==
    /\ start_pc = "run"
    /\ start_in.s.txgain_lut.size = 16
    /\ Len(AgcOps) = 51
    /\ AgcOps[49].data = 63
    /\ AgcOps[51].arg = 3

\* C19: the k-th gain cycle (k = 0 .. size-1) writes 16 (WAIT) to RADIO_SELECT,
\* then mix_gain + 16*dac_gain + 64*pa_gain of entry k of the table, and goes
\* on only when MCU_AGC_STATUS gives 0x30 + k: any other status ends the call
\* with the AGC error.
C19_GainCyclesInIndexOrder ==
    LET n == start_in.s.txgain_lut.size
        lut == start_in.s.txgain_lut.lut
    IN  (start_pc # "off" /\ n <= 16)
          => \A i \in 2..Min(Len(AgcOps), 3 * n + 1) :
                LET k == (i - 2) \div 3
                IN  /\ i % 3 = 2 => IsRadioSelectWrite(AgcOps[i]) /\ AgcOps[i].arg = 16
                    /\ i % 3 = 0
                          => /\ IsRadioSelectWrite(AgcOps[i])
                             /\ AgcOps[i].arg = lut[k + 1].mix_gain
                                                  + 16 * lut[k + 1].dac_gain
                                                  + 64 * lut[k + 1].pa_gain
                    /\ i % 3 = 1
                          => /\ AgcOps[i].op = "agc"
                             /\ AgcOps[i].reg = "MCU_AGC_STATUS"
                             /\ (AgcOps[i].ok /\ AgcOps[i].data # 48 + k)
                                   => /\ i = Len(AgcOps)
                                      /\ StartDone /\ start_ret.err = "agc_init"
                             /\ (AgcOps[i].ok /\ i < Len(AgcOps))
                                   => AgcOps[i].data = 48 + k

\* C19 witness: the 15 entries of a table written one after the other, the
\* last one as 14 + 16*2 + 64*3
C19_Witness ==
    /\ StartDone /\ start_ret.err = "none"
    /\ start_in.s.txgain_lut.size = 15
    /\ AgcOps[3].arg = 186 /\ AgcOps[6].arg = 254 /\ AgcOps[45].arg = 238
    /\ AgcOps[46].data = 62

\* C20: a status read from MCU_AGC_STATUS that differs from the one expected
\* at that step of the handshake is the last access of the call: Lgw_start
\* returns the AGC-initialisation error with the status read and a nil
\* handle, writes RADIO_SELECT no more, and has not written GPS-enable.
C20_UnexpectedAgcStatusIsFatal ==
    \A i \in 1..Len(start_ops) :
        (start_ops[i].op = "agc" /\ start_ops[i].ok
           /\ start_ops[i].data # start_ops[i].exp)
          => /\ i = Len(start_ops)
             /\ StartDone
             /\ start_ret.err = "agc_init"
             /\ start_ret.status = start_ops[i].data
             /\ start_ret.handle = "nil"
             /\ \A j \in 1..Len(start_ops) : ~IsGpsEnable(start_ops[j])

\* C20 witness: the second gain cycle answered with 0x41 instead of 0x31
C20_Witness ==
    /\ StartDone /\ start_ret.err = "agc_init" /\ start_ret.status = 65
    /\ Len(AgcOps) = 7
    /\ AgcOps[7].data = 65 /\ AgcOps[7].exp = 49
    /\ AgcOps[6].arg = 254

\* the accesses of the cycle that ends the AGC firmware init
IsEndCycle(o) == o.stage = "agc" /\ o.tag = "end"
EndOps == SelectSeq(start_ops, IsEndCycle)

\* C21: the value written to RADIO_SELECT in the last cycle of the AGC
\* handshake (WAIT, the value, status 0x40 expected) has bit i set, for i in
\* 0..7, exactly when if_rf_chain[i] is 1, and no other bit: IF chains 8 and 9
\* do not contribute.
C21_LastPushIsRadioSelectMask ==
    Len(EndOps) >= 2
      => /\ IsRadioSelectWrite(EndOps[1]) /\ EndOps[1].arg = AGC_CMD_WAIT
         /\ IsRadioSelectWrite(EndOps[2])
         /\ EndOps[2].arg \in 0..255
         /\ \A i \in 0..7 :
               ((EndOps[2].arg \div (2 ^ i)) % 2 = 1)
                 <=> (start_in.s.if_rf_chain[i + 1] = 1)
         /\ Len(EndOps) >= 3
               => /\ EndOps[3].op = "agc" /\ EndOps[3].exp = 64
                  /\ LET ws == SelectSeq(start_ops, IsRadioSelectWrite)
                     IN  ws[Len(ws)] = EndOps[2]

\* C21 witness: chains 1, 4 and 7 on radio B, chains 8 and 9 on radio A: the
\* value 2 + 16 + 128 is pushed and answered with 0x40
C21_Witness ==
    /\ StartDone /\ start_ret.err = "none"
    /\ start_in.s.if_rf_chain = <<0, 1, 0, 0, 1, 0, 0, 1, 0, 0>>
    /\ Len(EndOps) = 3
    /\ EndOps[2].arg = 146
    /\ EndOps[3].data = 64

\* the reads of the calibration status, and the errors of its per-radio tests
IsCalStatusRead(o) == o.op = "cal" /\ o.ok
CalRadioErrors ==
    {"cal_access_a", "cal_access_b", "cal_image_a", "cal_image_b", "cal_dc_a",
     "cal_dc_b"}
HasBit(val, i) == (val \div (2 ^ i)) % 2 = 1

\* C22: a calibration status read without bit 7 or without bit 0 is the last
\* access of Lgw_start, which returns the calibration error carrying that
\* status and a nil handle; a status of 0x81 read with both RF chains disabled
\* passes: the call goes on and never returns an error of the calibration
\* stage.
C22_CalibrationNeedsBits7And0 ==
    \A i \in 1..Len(start_ops) :
        IsCalStatusRead(start_ops[i])
          => /\ ~(HasBit(start_ops[i].data, 7) /\ HasBit(start_ops[i].data, 0))
                   => /\ i = Len(start_ops)
                      /\ StartDone
                      /\ start_ret.err = "calibration"
                      /\ start_ret.status = start_ops[i].data
                      /\ start_ret.handle = "nil"
             /\ (start_ops[i].data = 129 /\ start_in.s.rf_enable = <<FALSE, FALSE>>)
                   => /\ start_ret.err \notin CalRadioErrors \cup {"calibration"}
                      /\ i = Len(start_ops) => start_pc = "run" /\ start_idx > 1

\* C22 witness: status 0x01 (finished bit unset) ended a call
C22_Witness ==
    /\ StartDone /\ start_ret.err = "calibration" /\ start_ret.status = 1
    /\ start_ops[Len(start_ops)].op = "cal"
    /\ start_ops[Len(start_ops)].data = 1
    /\ start_ret.handle = "nil"

\* the other case of C22: a call with both RF chains disabled that went on to
\* the DC-offset read-back after status 0x81
C22_PassedWithChainsDisabled ==
    /\ start_in.s.rf_enable = <<FALSE, FALSE>>
    /\ start_pc = "run"
    /\ Len(start_ops) >= 2
    /\ start_ops[Len(start_ops) - 1].op = "cal"
    /\ start_ops[Len(start_ops) - 1].data = 129
    /\ start_ops[Len(start_ops)].stage = "dcoffset"

\* the bits the per-radio tests want from a status: register access and image
\* rejection of each enabled chain, TX DC offset of each enabled chain that
\* transmits (chain c = 0 for A, 1 for B)
CalBitsMissing(val, st) ==
    \E c \in 0..1 :
        /\ st.rf_enable[c + 1]
        /\ \/ ~HasBit(val, 1 + c)
           \/ ~HasBit(val, 3 + c)
           \/ st.rf_tx_enable[c + 1] /\ ~HasBit(val, 5 + c)

\* C23: when the calibration status has bits 7 and 0, the read is followed by
\* an error of the calibration stage exactly when an enabled chain lacks its
\* register-access bit (1 for A, 2 for B) or its image-rejection bit (3, 4),
\* or an enabled and TX-enabled chain lacks its TX DC-offset bit (5, 6); then
\* the read is the last access and the handle is nil.  Otherwise the call goes
\* on, whatever the bits of chains and features that were not requested.
C23_PerRadioBitsOnlyWhenRequested ==
    \A i \in 1..Len(start_ops) :
        (IsCalStatusRead(start_ops[i])
           /\ HasBit(start_ops[i].data, 7) /\ HasBit(start_ops[i].data, 0))
          => IF CalBitsMissing(start_ops[i].data, start_in.s)
             THEN /\ i = Len(start_ops)
                  /\ StartDone
                  /\ start_ret.err \in CalRadioErrors
                  /\ start_ret.handle = "nil"
             ELSE /\ start_ret.err \notin CalRadioErrors \cup {"calibration"}
                  /\ i = Len(start_ops) => start_pc = "run"

\* C23 witness: chain A enabled and transmitting, its TX DC-offset bit 5
\* missing from status 0xDF
C23_Witness ==
    /\ StartDone /\ start_ret.err = "cal_dc_a"
    /\ start_ops[Len(start_ops)].op = "cal"
    /\ start_ops[Len(start_ops)].data = 223
    /\ start_in.s.rf_enable[1] /\ start_in.s.rf_tx_enable[1]

\* the other case of C23: chain B enabled and not transmitting, status 0xBF
\* without the TX DC-offset bit of B, and the call went on
C23_PassedWithoutUnrequestedBit ==
    /\ start_in.s.rf_enable = <<TRUE, TRUE>>
    /\ start_in.s.rf_tx_enable = <<TRUE, FALSE>>
    /\ start_pc = "run"
    /\ Len(start_ops) >= 2
    /\ start_ops[Len(start_ops) - 1].op = "cal"
    /\ start_ops[Len(start_ops) - 1].data = 191
    /\ start_ops[Len(start_ops)].stage = "dcoffset"

\* a calibration status that passes every test of the State's chains
CalPassed(val, st) == HasBit(val, 7) /\ HasBit(val, 0) /\ ~CalBitsMissing(val, st)

\* C24: no step of Lgw_start changes a field of the State other than the
\* DC-offset fields cal_offset_a_i, cal_offset_a_q, cal_offset_b_i and
\* cal_offset_b_q; these change only in a read of the DC-offset read-back, one
\* entry at a time, after a calibration status that passed; no step of
\* Lgw_receive changes the State, and no step of Lgw_constant_adjust does.
C24_OnlyDcOffsetFieldsChange ==
    [][/\ start_in' = start_in
       /\ s' = s
       /\ start_cal' # start_cal
             => /\ start_pc = "run"
                /\ StartStep.stage = "dcoffset" /\ StartStep.kind = "r"
                /\ \E i \in 1..Len(start_ops) :
                      /\ IsCalStatusRead(start_ops[i])
                      /\ CalPassed(start_ops[i].data, start_in.s)
                /\ \E f \in DOMAIN start_cal, k \in 1..8 :
                      start_cal' = [start_cal EXCEPT ![f][k] = start_cal'[f][k]]
       /\ (start_pc = "run" /\ start_idx <= Len(start_in.steps)
             /\ StartStep.stage = "adjust")
             => start_cal' = start_cal]_vars

\* C24 witness: the 32 offsets read back from 0xA0 .. 0xBF and stored as int8
C24_Witness ==
    /\ StartDone /\ start_ret.err = "none"
    /\ start_cal["a_i"][1] = -96 /\ start_cal["a_q"][1] = -88
    /\ start_cal["b_i"][8] = -73 /\ start_cal["b_q"][8] = -65

\* the reads of a firmware version, and the version each one must give
IsVersionRead(o) == o.op = "version" /\ o.ok
VersionWanted(o) ==
    IF o.stage = "cal" THEN 2
    ELSE IF o.reg = "DBG_AGC_MCU_RAM_DATA" THEN 4
    ELSE 1

\* C25: each firmware version is read from the data memory after 0x20 was
\* written to its address register; a version other than 2 (calibration
\* firmware), 4 (AGC firmware) or 1 (arbiter firmware) makes that read the
\* last access: Lgw_start returns the version error with a nil handle.  After
\* a mismatch of the calibration firmware EMERGENCY_FORCE_HOST_CTRL was never
\* written, and after a mismatch of the AGC or arbiter firmware no access of
\* the AGC handshake was made.  A matching version lets the call go on.
C25_VersionMismatchIsFatal ==
    \A i \in 1..Len(start_ops) :
        IsVersionRead(start_ops[i])
          => /\ i > 1
             /\ start_ops[i - 1].op = "w" /\ start_ops[i - 1].arg = 32
             /\ start_ops[i - 1].reg =
                   (IF start_ops[i].reg = "DBG_AGC_MCU_RAM_DATA"
                    THEN "DBG_AGC_MCU_RAM_ADDR" ELSE "DBG_ARB_MCU_RAM_ADDR")
             /\ IF start_ops[i].data # VersionWanted(start_ops[i])
                THEN /\ i = Len(start_ops)
                     /\ StartDone
                     /\ start_ret.err = "version"
                     /\ start_ret.status = start_ops[i].data
                     /\ start_ret.handle = "nil"
                     /\ \A j \in 1..Len(start_ops) :
                           /\ start_ops[i].stage = "cal"
                                 => start_ops[j].reg # "EMERGENCY_FORCE_HOST_CTRL"
                           /\ ~InAgc(start_ops[j])
                ELSE i = Len(start_ops) => start_pc = "run" /\ start_ret = StartPending

\* C25 witness: the arbiter firmware answered version 3 after the
\* calibration and AGC firmwares had answered 2 and 4
C25_Witness ==
    /\ StartDone /\ start_ret.err = "version" /\ start_ret.status = 3
    /\ start_ops[Len(start_ops)].reg = "DBG_ARB_MCU_RAM_DATA"
    /\ \E i, j \in 1..Len(start_ops) :
          /\ IsVersionRead(start_ops[i]) /\ start_ops[i].stage = "cal"
          /\ start_ops[i].data = 2
          /\ IsVersionRead(start_ops[j]) /\ start_ops[j].stage = "version"
          /\ start_ops[j].data = 4

\* the other case of C25: the calibration firmware answered version 4
C25_CalVersionMismatchReached ==
    /\ StartDone /\ start_ret.err = "version" /\ start_ret.status = 4
    /\ start_ops[Len(start_ops)].stage = "cal"

(***************************************************************************)
(* More claims about Lgw_setup_sx125x                                      *)
(***************************************************************************)
IsPllOrStartWrite(o) == o.op = "w" /\ o.addr \in {0, 1, 2, 3}
UnknownRadioType ==
    pll_in.rf_radio_type \notin {LGW_RADIO_TYPE_SX1255, LGW_RADIO_TYPE_SX1257}

\* C26: Lgw_setup_sx125x called with a radio variant other than SX1255 or
\* SX1257 returns the unsupported-radio-type error, and has written none of
\* the registers 0x01, 0x02, 0x03 (PLL frequency) and 0x00 (start of the
\* PLL-lock loop).
C26_UnknownVariantGivesRadioTypeError ==
    (PllDone /\ UnknownRadioType)
      => /\ pll_ret = "radio_type"
         /\ \A i \in 1..Len(pll_ops) : ~IsPllOrStartWrite(pll_ops[i])

\* C26 as amended: with a radio variant other than SX1255 or SX1257 no call
\* writes the registers 0x00 .. 0x03 or reads the lock status; a call for RF
\* chain 0 or 1 whose version read and clock-select write (0x10) succeeded
\* returns the unsupported-radio-type error after these two accesses; a call
\* for another RF chain returns the invalid-RF-chain error, and a failed
\* access its transport error.
C26_UnknownVariantAfterClockSelect ==
    UnknownRadioType
      => /\ \A i \in 1..Len(pll_ops) :
               ~IsPllOrStartWrite(pll_ops[i]) /\ ~IsLockRead(pll_ops[i])
         /\ PllDone
               => pll_ret =
                    (IF pll_in.rf_chain >= 2 THEN "invalid_rf_chain"
                     ELSE IF \E i \in 1..Len(pll_ops) : pll_ops[i].end # "ok"
                     THEN "transport"
                     ELSE "radio_type")
         /\ (PllDone /\ pll_ret = "radio_type")
               => /\ Len(pll_ops) = 2
                  /\ pll_ops[1].op = "r" /\ pll_ops[1].addr = 7
                  /\ pll_ops[2].op = "w" /\ pll_ops[2].addr = 16

\* C26 witness: a call for an SX1272 on chain 1 that returned the error
\* after the version read and the clock-select write
C26_Witness ==
    /\ PllDone /\ pll_ret = "radio_type"
    /\ pll_in.rf_radio_type = LGW_RADIO_TYPE_SX1272 /\ pll_in.rf_chain = 1
    /\ Len(pll_ops) = 2 /\ pll_ops[2].end = "ok"

(***************************************************************************)
(* More claims about Lgw_start                                             *)
(***************************************************************************)
\* q * d <= 4096000000 (= 62500 * 65536), computed on 16 bit halves
TimesFitsDividend(q, d) ==
    LET high == q * (d \div 65536) + ((q * (d % 65536)) \div 65536)
        low == (q * (d % 65536)) % 65536
    IN  high < 62500 \/ (high = 62500 /\ low = 0)

\* min(63, 4096000000 / d) for d > 0
DriftWanted(d) ==
    IF d <= 65015873 THEN 63
    ELSE CHOOSE q \in 0..62 : TimesFitsDividend(q, d) /\ ~TimesFitsDividend(q + 1, d)

IsDriftWrite(o, reg) == o.op = "w" /\ o.reg = reg

\* C27: with rf_rx_freq[0] other than 0, a call of Lgw_start that has passed
\* the test of the frequency does not stop on an arithmetic fault in the
\* drift computation, and writes min(63, 4096000000 / (rf_rx_freq[0] >> 1)) to
\* FREQ_TO_TIME_DRIFT and min(63, 4096000000 / (rf_rx_freq[0] >> 3)) to
\* MBWSSF_FREQ_TO_TIME_DRIFT, each in 0..63.
C27_DriftRegistersSaturate ==
    (start_pc # "off" /\ start_in.s.rf_rx_freq[1] # W32(0))
      => LET f == start_in.s.rf_rx_freq[1]
             d1 == f[1] * 32768 + (f[2] \div 2)
             d3 == f[1] * 8192 + (f[2] \div 8)
         IN  /\ ~(StartDone /\ start_ret.err = "panic" /\ StartStep.stage = "drift")
             /\ \A i \in 1..Len(start_ops) :
                   /\ IsDriftWrite(start_ops[i], "FREQ_TO_TIME_DRIFT")
                         => /\ start_ops[i].arg \in 0..63
                            /\ d1 > 0 /\ start_ops[i].arg = DriftWanted(d1)
                   /\ IsDriftWrite(start_ops[i], "MBWSSF_FREQ_TO_TIME_DRIFT")
                         => /\ start_ops[i].arg \in 0..63
                            /\ d3 > 0 /\ start_ops[i].arg = DriftWanted(d3)

CorrRegs ==
    <<"CORR0_DETECT_EN", "CORR1_DETECT_EN", "CORR2_DETECT_EN", "CORR3_DETECT_EN",
      "CORR4_DETECT_EN", "CORR5_DETECT_EN", "CORR6_DETECT_EN", "CORR7_DETECT_EN">>

\* C29: for each multi-SF channel i in 0..7, the value written to
\* CORRi_DETECT_EN is lora_multi_sfmask[i] when if_enable[i] is set and 0 when
\* it is not, whatever the lower-numbered channels are.
C29_CorrelatorMaskPerChannel ==
    \A k \in 1..Len(start_ops) :
        \A n \in 1..LGW_MULTI_NB :
            (start_ops[k].op = "w" /\ start_ops[k].reg = CorrRegs[n])
              => start_ops[k].arg =
                   (IF start_in.s.if_enable[n] THEN start_in.s.lora_multi_sfmask[n]
                    ELSE 0)

(***************************************************************************)
(* The addressing of the lock-status read                                  *)
(***************************************************************************)
\* C30: in every call of Lgw_setup_sx125x for RF chain r, each read of the
\* lock status (register 0x11) selects the radio of chain r and goes through
\* the mux mode and the mux target of the call, like the writes of 0x00 that
\* enabled the oscillator and the receiver; it is not refused by the argument
\* checks of Sx125x_read.
C30_LockReadAddressesSameRadio ==
    \A i \in 1..Len(pll_ops) :
        IsLockRead(pll_ops[i])
          => /\ pll_ops[i].channel = pll_in.rf_chain
             /\ pll_ops[i].mode = pll_in.mode
             /\ pll_ops[i].target = pll_in.target
             /\ pll_ops[i].end # "param"
             /\ i > 2
             /\ \A j \in {i - 2, i - 1} :
                   /\ pll_ops[j].op = "w" /\ pll_ops[j].addr = 0
                   /\ pll_ops[j].channel = pll_ops[i].channel
                   /\ pll_ops[j].mode = pll_ops[i].mode
                   /\ pll_ops[j].target = pll_ops[i].target

(***************************************************************************)
(* Claims about two calls on one concentrator                              *)
(***************************************************************************)
ParDone == \A p \in Callers : par_call[p].pc = "done"

\* an access after which a caller has no packet in hand
EndsPacket(o) == o.op = "adv" \/ ~o.ok \/ (o.op = "hdr" /\ o.pkt = 0)

\* how many times packet k was decoded, by either caller
TimesDecoded(k) ==
    Cardinality({<<p, i>> \in Callers \X (1..RX_MAX_PKT) :
                    /\ i <= Len(par_call[p].pkt_data)
                    /\ par_call[p].pkt_data[i].data = k})

\* C28: the register accesses of two calls of Lgw_receive on one handle are
\* not interleaved: an access of the other caller never comes between the
\* header read, the burst read and the FIFO advance of one packet; and when
\* both calls have returned without a transport failure, each packet the
\* FIFO held was decoded exactly once, from its own header.
C28_CallsNotInterleaved ==
    /\ \A i \in 1..(Len(par_log) - 1) :
          par_log[i].who # par_log[i + 1].who => EndsPacket(par_log[i])
    /\ (ParDone /\ par_faults = MaxFaults)
          => /\ \A k \in 1..Len(par_sent) : TimesDecoded(k) = 1
             /\ \A p \in Callers :
                   \A i \in 1..Len(par_call[p].pkt_data) :
                       par_call[p].pkt_data[i].hdr = par_call[p].pkt_data[i].data

\* both calls returned without a failure, the first packet is in the result
\* of both, and the second packet is in neither
C28_DecodedTwiceAndSkipped ==
    /\ ParDone /\ par_faults = MaxFaults
    /\ Len(par_sent) = 2
    /\ TimesDecoded(1) = 2
    /\ TimesDecoded(2) = 0
    /\ par_fifo = <<>>

(***************************************************************************)
(* The register operations of Load_firmware                                *)
(***************************************************************************)
FwAccess(op, reg, arg) == [op |-> op, reg |-> reg, arg |-> arg]

\* the accesses the load of image fw into target makes when nothing stops it
FwExpected(target, fw) ==
    LET rst == IF target = MCU_ARB THEN "MCU_RST_0" ELSE "MCU_RST_1"
        sel == IF target = MCU_ARB THEN "MCU_SELECT_MUX_0" ELSE "MCU_SELECT_MUX_1"
    IN  << FwAccess("w", rst, 1),
           FwAccess("w", sel, 0),
           FwAccess("w", "MCU_PROM_ADDR", 0),
           FwAccess("wb", "MCU_PROM_DATA", fw.bytes),
           FwAccess("r", "MCU_PROM_DATA", 0),
           FwAccess("rb", "MCU_PROM_DATA", Len(fw.bytes)),
           FwAccess("w", sel, 1) >>

FwOpAt(i) == FwAccess(fw_ops[i].op, fw_ops[i].reg, fw_ops[i].arg)

\* C31: the register operations of Load_firmware are, in this order and with
\* nothing else between them: reset register <- 1, mux-select register <- 0,
\* program address <- 0, one burst write of the whole image, the throwaway
\* read, one verifying burst read of len(image) bytes, and, on a match,
\* mux-select register <- 1; the registers are MCU_RST_0 and MCU_SELECT_MUX_0
\* for ARB, MCU_RST_1 and MCU_SELECT_MUX_1 for AGC; any other target is
\* rejected before any register access; an operation follows only an
\* operation that succeeded.
C31_LoadFirmwareOrder ==
    /\ Len(fw_ops) <= 7
    /\ \A i \in 1..Len(fw_ops) :
          /\ FwOpAt(i) = FwExpected(fw_in.target, fw_in.firmware)[i]
          /\ i < Len(fw_ops) => fw_ops[i].ok
    /\ fw_in.target \notin {MCU_ARB, MCU_AGC}
          => /\ fw_ops = <<>>
             /\ FwDone => fw_ret = "target"
    /\ Len(fw_ops) = 7 => (fw_check.isnil = fw_in.firmware.isnil
                            /\ fw_check.bytes = fw_in.firmware.bytes)
    /\ (FwDone /\ fw_ret = "ok") => Len(fw_ops) = 7

\* C31 witness: a two byte image loaded into the AGC MCU, all seven
\* operations made
C31_Witness ==
    /\ FwDone /\ fw_ret = "ok"
    /\ fw_in.target = MCU_AGC
    /\ Len(fw_in.firmware.bytes) = 2
    /\ Len(fw_ops) = 7

\* the rejection of an unknown target is reached
C31_UnknownTargetRejected ==
    FwDone /\ fw_in.target = 2 /\ fw_ret = "target" /\ fw_ops = <<>>

\* C32 as claimed: what follows the burst write of the image is a burst read
\* of the size of the image, the throwaway one, and what follows that is the
\* verifying burst read.
C32_ThrowawayIsBurstRead ==
    \A i \in 1..Len(fw_ops) :
        (fw_ops[i].op = "wb" /\ i < Len(fw_ops))
            => /\ fw_ops[i + 1].op = "rb"
               /\ fw_ops[i + 1].arg = Len(fw_in.firmware.bytes)
               /\ (i + 1 < Len(fw_ops)) => fw_ops[i + 2].op = "rb"

\* C32 amended: between the burst write of the image and the verifying burst
\* read there is exactly one operation, a read of the single register
\* MCU_PROM_DATA (Lgw_reg_r), whose value is discarded: the image is written
\* once, and the verifying read is the only burst read.
C32_ThrowawayIsSingleRead ==
    /\ Cardinality({i \in 1..Len(fw_ops) : fw_ops[i].op = "wb"}) <= 1
    /\ Cardinality({i \in 1..Len(fw_ops) : fw_ops[i].op = "rb"}) <= 1
    /\ \A i \in 1..Len(fw_ops) :
          (fw_ops[i].op = "wb" /\ i < Len(fw_ops))
              => /\ FwOpAt(i + 1) = FwAccess("r", "MCU_PROM_DATA", 0)
                 /\ (i + 1 < Len(fw_ops)) => fw_ops[i + 2].op = "rb"
    /\ \A j \in 1..Len(fw_ops) :
          fw_ops[j].op = "rb"
              => j > 2 /\ fw_ops[j - 1].op = "r" /\ fw_ops[j - 2].op = "wb"
    /\ (\A j \in 1..Len(fw_ops) : fw_ops[j].op # "rb" \/ ~fw_ops[j].ok)
          => fw_check = NilSlice

\* C32 witness: burst write, single read, verifying read of a two byte image
C32_Witness ==
    /\ Len(fw_in.firmware.bytes) = 2
    /\ \E i \in 1..Len(fw_ops) :
          /\ i + 2 <= Len(fw_ops)
          /\ fw_ops[i].op = "wb" /\ fw_ops[i + 1].op = "r" /\ fw_ops[i + 2].op = "rb"
          /\ fw_ops[i + 2].ok

FwIsRelease(o) ==
    o.op = "w" /\ o.arg = 1 /\ o.reg \in {"MCU_SELECT_MUX_0", "MCU_SELECT_MUX_1"}

FwIsResetWrite(o) == o.op = "w" /\ o.reg \in {"MCU_RST_0", "MCU_RST_1"}

FwMatched ==
    /\ \E i \in 1..Len(fw_ops) : fw_ops[i].op = "rb" /\ fw_ops[i].ok
    /\ fw_check.isnil = fw_in.firmware.isnil
    /\ fw_check.bytes = fw_in.firmware.bytes

\* C33: Load_firmware writes 1 to the mux-select register of the target
\* exactly when the verification succeeded, as its last register operation,
\* and returns the error of that write if it fails; when it returns for a
\* mismatch or an earlier transport error the release was not written; the
\* reset register of the target is written 1 first and never written 0.
C33_ReleaseOnlyAfterVerification ==
    /\ \A i \in 1..Len(fw_ops) :
          FwIsRelease(fw_ops[i]) => (i = Len(fw_ops) /\ FwMatched /\ FwDone)
    /\ FwDone =>
          /\ (FwMatched /\ fw_in.target \in {MCU_ARB, MCU_AGC})
                => /\ FwIsRelease(fw_ops[Len(fw_ops)])
                   /\ (fw_ret = "ok") <=> fw_ops[Len(fw_ops)].ok
                   /\ (~fw_ops[Len(fw_ops)].ok) => fw_ret = "transport"
          /\ fw_ret = "verify" => ~FwMatched
    /\ \A i \in 1..Len(fw_ops) :
          FwIsResetWrite(fw_ops[i]) => (i = 1 /\ fw_ops[i].arg = 1)
    /\ fw_ops # <<>> => FwIsResetWrite(fw_ops[1])

\* C33 witness: the release write fails after a verified load, and the call
\* returns its error
C33_Witness ==
    /\ FwDone /\ FwMatched /\ fw_ret = "transport"
    /\ Len(fw_ops) = 7
    /\ FwIsRelease(fw_ops[7]) /\ ~fw_ops[7].ok

\* a mismatch ends the load with the mux not released and the reset asserted
C33_MismatchLeavesMcuHeld ==
    /\ FwDone /\ fw_ret = "verify" /\ Len(fw_ops) = 6
    /\ FwIsResetWrite(fw_ops[1]) /\ fw_ops[1].arg = 1

(***************************************************************************)
(* The releases of the MCUs in Lgw_start                                   *)
(***************************************************************************)
IsResetRelease(o) ==
    o.op = "w" /\ o.reg \in {"MCU_RST_0", "MCU_RST_1"} /\ o.arg = 0

\* the positions of the writes to RADIO_SELECT before position i
SelectsBefore(i) == {j \in 1..(i - 1) : IsRadioSelectWrite(start_ops[j])}

LastOf(S) == CHOOSE m \in S : \A j \in S : j <= m

\* C34: whenever Lgw_start writes 0 to MCU_RST_0 or MCU_RST_1, RADIO_SELECT
\* has been written, and the value of its latest write is neither 1 nor 2: it
\* is 0 when the operational firmware is released, and a calibration command
\* word with bit 4 set when the calibration firmware is released.
C34_RadioSelectNeutralAtRelease ==
    \A i \in 1..Len(start_ops) :
        IsResetRelease(start_ops[i])
          => /\ SelectsBefore(i) # {}
             /\ LET sel == start_ops[LastOf(SelectsBefore(i))]
                IN  /\ sel.ok
                    /\ sel.arg \notin {1, 2}
                    /\ start_ops[i].stage = "release" => sel.arg = 0
                    /\ start_ops[i].stage = "cal"
                          => /\ start_ops[i].reg = "MCU_RST_1"
                             /\ (sel.arg \div 16) % 2 = 1
             /\ start_ops[i].stage \in {"cal", "release"}

\* C34 witness: a start to the end, whose three releases of a reset followed
\* the command word 16 + 2 + 8 of radio B alone, and then 0
C34_Witness ==
    /\ StartDone /\ start_ret.err = "none"
    /\ start_in.s.rf_enable = <<FALSE, TRUE>>
    /\ Cardinality({i \in 1..Len(start_ops) : IsResetRelease(start_ops[i])}) = 3
    /\ \E i \in 1..Len(start_ops) :
          /\ IsResetRelease(start_ops[i]) /\ start_ops[i].stage = "cal"
          /\ start_ops[LastOf(SelectsBefore(i))].arg = 26

(***************************************************************************)
(* The order of the calibration in Lgw_start                               *)
(***************************************************************************)
InCal(o) == o.stage = "cal"
CalOps == SelectSeq(start_ops, InCal)

\* (op, reg) of the accesses of the calibration stage
CalOrder ==
    << <<"fw", "cal_firmware">>,
       <<"w", "FORCE_HOST_RADIO_CTRL">>,
       <<"w", "RADIO_SELECT">>,
       <<"w", "MCU_RST_1">>,
       <<"w", "DBG_AGC_MCU_RAM_ADDR">>,
       <<"version", "DBG_AGC_MCU_RAM_DATA">>,
       <<"w", "PAGE_REG">>,
       <<"w", "EMERGENCY_FORCE_HOST_CTRL">>,
       <<"w", "EMERGENCY_FORCE_HOST_CTRL">>,
       <<"cal", "MCU_AGC_STATUS">> >>

IsHostCtrlWrite(o) == o.op = "w" /\ o.reg = "EMERGENCY_FORCE_HOST_CTRL"

\* a read of the calibration status or of a DC offset byte
IsCalResultRead(o) == o.op = "cal" \/ (o.stage = "dcoffset" /\ o.op = "r")

\* C35: the calibration stage of Lgw_start runs in this order: calibration
\* firmware loaded into the AGC MCU, FORCE_HOST_RADIO_CTRL <- 0, command word
\* to RADIO_SELECT, MCU_RST_1 <- 0, firmware version read and found equal to
\* FW_VERSION_CAL, EMERGENCY_FORCE_HOST_CTRL <- 0, then <- 1, then the read
\* of the calibration status; each step follows the success of the one
\* before; and whenever the status or a DC offset byte is read, the latest
\* write to EMERGENCY_FORCE_HOST_CTRL was 1.
C35_CalibrationOrder ==
    LET cal == CalOps
        host == {j \in 1..Len(start_ops) : IsHostCtrlWrite(start_ops[j])}
    IN  /\ Len(cal) <= Len(CalOrder)
        /\ \A i \in 1..Len(cal) :
              /\ <<cal[i].op, cal[i].reg>> = CalOrder[i]
              /\ i < Len(cal) => cal[i].ok
        /\ Len(cal) >= 1 => cal[1].arg = MCU_AGC
        /\ Len(cal) >= 2 => cal[2].arg = 0
        /\ Len(cal) >= 4 => cal[4].arg = 0
        /\ Len(cal) >= 7 => cal[6].data % 256 = FW_VERSION_CAL
        /\ Len(cal) >= 8 => cal[8].arg = 0
        /\ Len(cal) >= 9 => cal[9].arg = 1
        /\ \A i \in 1..Len(start_ops) :
              IsCalResultRead(start_ops[i])
                => LET before == {j \in host : j < i}
                   IN  /\ before # {}
                       /\ start_ops[LastOf(before)].arg = 1
                       /\ start_ops[LastOf(before)].ok

\* C35 witness: the calibration ran to its status read and the 32 DC offset
\* bytes were read after it
C35_Witness ==
    /\ Len(CalOps) = 10
    /\ CalOps[10].ok
    /\ Cardinality({i \in 1..Len(start_ops) :
                       start_ops[i].stage = "dcoffset" /\ start_ops[i].op = "r"}) = 32

(***************************************************************************)
(* The FIFO advance of Lgw_receive                                         *)
(***************************************************************************)
AdvanceCount == Cardinality({i \in 1..Len(rx_ops) : IsAdvance(rx_ops[i])})

\* C36: every advance write of Lgw_receive (0 to the FIFO-count register)
\* comes right after the burst read of a packet that was decoded, and is
\* followed by nothing or by the next header read; a decoded packet is
\* followed by its advance before anything else; when the call succeeds,
\* the advance writes are as many as the packets decoded; a header with
\* count 0 is the last access of the call.
C36_OneAdvancePerPacket ==
    /\ \A i \in 1..Len(rx_ops) :
          /\ IsAdvance(rx_ops[i])
                => /\ rx_ops[i].arg = 0
                   /\ i > 1 /\ IsBurstRead(rx_ops[i - 1]) /\ rx_ops[i - 1].ok
                   /\ i < Len(rx_ops) => IsHeaderRead(rx_ops[i + 1])
          /\ (IsBurstRead(rx_ops[i]) /\ i < Len(rx_ops)) => IsAdvance(rx_ops[i + 1])
          /\ (IsHeaderRead(rx_ops[i]) /\ rx_ops[i].ok /\ rx_ops[i].data[1] = 0)
                => i = Len(rx_ops)
    /\ AdvanceCount = nb_pkt_fetch
    /\ rx_pc \in {"idle", "hdr", "burst"} => Len(rx_corr) = AdvanceCount
    /\ rx_pc = "adv" => Len(rx_corr) = AdvanceCount + 1
    /\ (rx_pc = "done" /\ rx_ret.err = "none") => Len(rx_corr) = AdvanceCount

\* C36 witness: two packets decoded and advanced over, then a header with
\* count 0
C36_Witness ==
    /\ rx_pc = "done" /\ rx_ret.err = "none"
    /\ AdvanceCount = 2
    /\ Len(rx_corr) = 2
    /\ Len(rx_ops) = 7
    /\ rx_ops[7].data[1] = 0

(***************************************************************************)
(* The RF chain of a received packet                                       *)
(***************************************************************************)
\* a + b modulo 2^32 for a uint32 a kept as two 16 bit halves and a signed b
AddMod32(a, b) ==
    LET lo == a[2] + (b % 65536)
        hi == a[1] + ((b - (b % 65536)) \div 65536) + (lo \div 65536)
    IN  <<hi % 65536, lo % 65536>>

\* C37: Lgw_receive never indexes rf_rx_freq and rf_rssi_offset out of their
\* two entries, whatever state the caller passes: for every decoded packet
\* Rf_chain is if_rf_chain[If_chain] and is less than LGW_RF_CHAIN_NB, and
\* Freq_hz is rf_rx_freq[Rf_chain] + if_freq[If_chain] modulo 2^32.
C37_RfChainIndexInRange ==
    /\ rx_ret.err # "panic"
    /\ \A k \in 1..Len(rx_corr) :
          /\ pkt_data[k].Rf_chain = s.if_rf_chain[pkt_data[k].If_chain + 1]
          /\ pkt_data[k].Rf_chain < LGW_RF_CHAIN_NB
          /\ pkt_data[k].Freq_hz
                = AddMod32(s.rf_rx_freq[pkt_data[k].Rf_chain + 1],
                           s.if_freq[pkt_data[k].If_chain + 1])

\* a packet of IF chain 3 arrives while if_rf_chain[3] is 2: the call ends in
\* a run-time panic after the burst read
C37_PanicOnThirdRadio ==
    /\ rx_pc = "done" /\ rx_ret.err = "panic"
    /\ s.if_rf_chain[4] = 2
    /\ rx_ops # <<>>
    /\ IsBurstRead(rx_ops[Len(rx_ops)])
    /\ rx_ops[Len(rx_ops)].data[rx_sz + 1] = 3

(***************************************************************************)
(* The CRC status byte and the FSK packet                                  *)
(***************************************************************************)
DecIfmod == LGW_IFMODEM_CONFIG[dec_in.modem[1] + 1]
DecLow3 == dec_in.stat % 8

\* the correction of a LoRa packet of the input when crc_en is c
DecLoraCorrection(c) ==
    LET bw == IF DecIfmod = IF_LORA_MULTI THEN BW_125KHZ ELSE dec_in.modem[2]
        ppm == IF SET_PPM_ON(bw, DatarateOf(dec_in.sf)) THEN 1 ELSE 0
    IN  LoraCorrection(dec_in.sf, dec_in.cr, dec_in.sz, c, ppm,
                       DelayX(DecIfmod, dec_in.modem[2]),
                       BwPow(DecIfmod, dec_in.modem[2]))

\* C38: for a LoRa or FSK packet Status comes from the low 3 bits of the CRC
\* status byte: 5 is CRC-ok, 7 CRC-bad, 1 no-CRC, anything else undefined;
\* for LoRa the timestamp correction is computed with crc_en = 1 exactly for
\* 5 and 7; for an undefined modem type Status is undefined and the
\* correction is 0.
C38_StatusFromLowThreeBits ==
    /\ dec_out.kind = "ok"
         => /\ dec_out.pkt.Status
                 = (IF DecLow3 = 5 THEN STAT_CRC_OK
                    ELSE IF DecLow3 = 7 THEN STAT_CRC_BAD
                    ELSE IF DecLow3 = 1 THEN STAT_NO_CRC
                    ELSE STAT_UNDEFINED)
            /\ DecIfmod \in {IF_LORA_MULTI, IF_LORA_STD}
                 => dec_out.corr
                      = DecLoraCorrection(IF DecLow3 \in {5, 7} THEN 1 ELSE 0)
    /\ LET m == ModemFields(IF_UNDEFINED, DecState(dec_in.modem[2]), dec_in.stat,
                            dec_in.sf * 16 + dec_in.cr * 2, 40, 252, 44, dec_in.sz)
       IN  m.Status = STAT_UNDEFINED /\ m.corr = 0

\* C38 witness: a LoRa packet whose status byte is 0xFD: the low bits are 5,
\* the Status is CRC-ok, and the correction is the one of crc_en = 1, which
\* differs from the one of crc_en = 0
C38_Witness ==
    /\ dec_out.kind = "ok"
    /\ dec_in.modem = <<0, BW_125KHZ>>
    /\ dec_in.stat = 253
    /\ dec_out.pkt.Status = STAT_CRC_OK
    /\ dec_out.corr = DecLoraCorrection(1)
    /\ DecLoraCorrection(1) # DecLoraCorrection(0)

\* an FSK packet with status byte 15 has Status CRC-bad
C38_FskCrcBad ==
    /\ dec_out.kind = "ok"
    /\ DecIfmod = IF_FSK_STD
    /\ dec_in.stat = 15
    /\ dec_out.pkt.Status = STAT_CRC_BAD

\* C40: for a packet of the FSK modem the timestamp correction is
\* (680000 / 50000) - 20 in integer arithmetic, that is -7, Count_us is the
\* raw timestamp minus it modulo 2^32, and Modulation is FSK, Bandwidth
\* 125 kHz, Datarate 50000 and Coderate undefined, whatever the SF/CR byte
\* of the trailer holds.
C40_FskFixedFields ==
    (dec_out.kind = "ok" /\ dec_in.modem[1] = 9)
        => /\ dec_out.corr = (680000 \div 50000) - 20
           /\ dec_out.corr = -7
           /\ dec_out.pkt.Count_us = AddMod32(dec_in.raw, 7)
           /\ dec_out.pkt.Modulation = MOD_FSK
           /\ dec_out.pkt.Bandwidth = BW_125KHZ
           /\ dec_out.pkt.Datarate = 50000
           /\ dec_out.pkt.Coderate = CR_UNDEFINED

\* C40 witness: an FSK packet whose SF/CR byte reads SF12 and CR 4/5 and
\* whose raw timestamp is 2^32 - 6: Count_us wraps to 1
C40_Witness ==
    /\ dec_out.kind = "ok"
    /\ dec_in.modem[1] = 9
    /\ dec_in.sf = 12 /\ dec_in.cr = 1
    /\ dec_in.raw = <<65535, 65530>>
    /\ dec_out.pkt.Count_us = <<0, 1>>
    /\ dec_out.pkt.Datarate = 50000
    /\ dec_out.pkt.Coderate = CR_UNDEFINED

(***************************************************************************)
(* The stand-alone LoRa modem and the FSK modem in Lgw_start               *)
(***************************************************************************)
IsWriteTo(o, reg) == o.op = "w" /\ o.reg = reg

WritesTo(regs) ==
    {i \in 1..Len(start_ops) : start_ops[i].op = "w" /\ start_ops[i].reg \in regs}

\* Lgw_start has gone past the programming of the IF modems
PastIfModems ==
    \E i \in 1..Len(start_ops) :
        start_ops[i].stage \in {"fwload", "release", "version", "agc", "gps"}

LoraStdBwCode(bw) ==
    IF bw = BW_125KHZ THEN 0 ELSE IF bw = BW_250KHZ THEN 1
    ELSE IF bw = BW_500KHZ THEN 2 ELSE -1

LoraStdSfCode(sf) ==
    IF sf = DR_LORA_SF7 THEN 7 ELSE IF sf = DR_LORA_SF8 THEN 8
    ELSE IF sf = DR_LORA_SF9 THEN 9 ELSE IF sf = DR_LORA_SF10 THEN 10
    ELSE IF sf = DR_LORA_SF11 THEN 11 ELSE IF sf = DR_LORA_SF12 THEN 12 ELSE -1

\* the enable writes come after the parameters, and only for an enabled
\* channel; a disabled channel gets a 0 and no parameter
ModemEnableAfterParameters ==
    LET st == start_in.s
    IN  \A i \in 1..Len(start_ops) :
          /\ IsWriteTo(start_ops[i], "MBWSSF_MODEM_ENABLE")
                => IF start_ops[i].arg = 1
                   THEN /\ st.if_enable[9]
                        /\ i > 3
                        /\ IsWriteTo(start_ops[i - 3], "MBWSSF_MODEM_BW")
                        /\ start_ops[i - 3].arg = LoraStdBwCode(st.lora_rx_bw)
                        /\ IsWriteTo(start_ops[i - 2], "MBWSSF_RATE_SF")
                        /\ start_ops[i - 2].arg = LoraStdSfCode(st.lora_rx_sf)
                        /\ IsWriteTo(start_ops[i - 1], "MBWSSF_PPM_OFFSET")
                        /\ start_ops[i - 1].arg
                              = (IF st.lora_rx_ppm_offset THEN 1 ELSE 0)
                        /\ start_ops[i - 3].arg \in 0..2
                        /\ start_ops[i - 2].arg \in 7..12
                   ELSE /\ start_ops[i].arg = 0
                        /\ ~st.if_enable[9]
                        /\ WritesTo({"MBWSSF_MODEM_BW", "MBWSSF_RATE_SF",
                                     "MBWSSF_PPM_OFFSET"}) = {}
          /\ IsWriteTo(start_ops[i], "FSK_MODEM_ENABLE")
                => IF start_ops[i].arg = 1
                   THEN /\ st.if_enable[10]
                        /\ i > 2
                        /\ st.fsk_rx_dr # 0
                        /\ IsWriteTo(start_ops[i - 2], "FSK_BR_RATIO")
                        /\ start_ops[i - 2].arg = 32000000 \div st.fsk_rx_dr
                        /\ IsWriteTo(start_ops[i - 1], "FSK_CH_BW_EXPO")
                        /\ start_ops[i - 1].arg = st.fsk_rx_bw
                   ELSE /\ start_ops[i].arg = 0
                        /\ ~st.if_enable[10]
                        /\ WritesTo({"FSK_BR_RATIO", "FSK_CH_BW_EXPO"}) = {}

\* once past the IF modems, each of the two modems got its enable write
ModemEnableWritten ==
    PastIfModems
      => /\ Cardinality(WritesTo({"MBWSSF_MODEM_ENABLE"})) = 1
         /\ Cardinality(WritesTo({"FSK_MODEM_ENABLE"})) = 1
         /\ \A i \in WritesTo({"MBWSSF_MODEM_ENABLE"}) :
               (start_ops[i].arg = 1) <=> start_in.s.if_enable[9]
         /\ \A i \in WritesTo({"FSK_MODEM_ENABLE"}) :
               (start_ops[i].arg = 1) <=> start_in.s.if_enable[10]

\* an enabled stand-alone channel with an unknown bandwidth or spreading
\* factor: an error, and no enable write
LoraStdRejected ==
    LET st == start_in.s
        bad == st.if_enable[9]
               /\ (LoraStdBwCode(st.lora_rx_bw) < 0 \/ LoraStdSfCode(st.lora_rx_sf) < 0)
    IN  /\ bad => (WritesTo({"MBWSSF_MODEM_ENABLE"}) = {} /\ ~PastIfModems)
        /\ (StartDone /\ start_ret.err \in {"lora_rx_bw", "lora_rx_sf"}) => bad

\* C39: for the stand-alone LoRa modem and for the FSK modem, Lgw_start
\* writes 1 to the modem-enable register exactly when the channel is
\* enabled, right after its parameters (bandwidth, spreading factor and ppm
\* offset; bit-rate ratio 32000000 / fsk_rx_dr and bandwidth code); a
\* disabled channel gets a 0 and none of the parameters; an enabled
\* stand-alone channel with an unknown bandwidth or spreading factor makes
\* Lgw_start return an error without an enable write; the programming of the
\* two modems ends in no other way than these and a transport error.
C39_ModemEnabledIffChannelEnabled ==
    /\ ModemEnableAfterParameters
    /\ ModemEnableWritten
    /\ LoraStdRejected
    /\ ~(StartDone /\ start_ret.err = "panic" /\ StartStep.stage = "ifmodem")

\* the claim without its last part
C39_HoldsApartFromPanic ==
    ModemEnableAfterParameters /\ ModemEnableWritten /\ LoraStdRejected

\* both modems enabled and programmed, in a start that succeeds
C39_BothEnabled ==
    /\ StartDone /\ start_ret.err = "none"
    /\ \E i \in WritesTo({"MBWSSF_MODEM_ENABLE"}) : start_ops[i].arg = 1
    /\ \E i \in WritesTo({"FSK_MODEM_ENABLE"}) :
          start_ops[i].arg = 1 /\ start_ops[i - 2].arg = 640

\* both modems disabled, in a start that succeeds
C39_BothDisabled ==
    /\ StartDone /\ start_ret.err = "none"
    /\ \E i \in WritesTo({"MBWSSF_MODEM_ENABLE"}) : start_ops[i].arg = 0
    /\ \E i \in WritesTo({"FSK_MODEM_ENABLE"}) : start_ops[i].arg = 0

\* an enabled FSK channel with fsk_rx_dr = 0: the division panics
C39_FskDatarateZeroPanics ==
    /\ StartDone /\ start_ret.err = "panic"
    /\ StartStep.stage = "ifmodem"
    /\ start_in.s.if_enable[10] /\ start_in.s.fsk_rx_dr = 0
    /\ WritesTo({"FSK_MODEM_ENABLE"}) = {}

====
